---- MODULE Spec2Model ----
(***************************************************************************)
(* The immutable document model of draft-js (the fork that replaces        *)
(* Immutable.js by plain objects, arrays and Maps): SelectionState,        *)
(* ContentBlock, ContentState, the transaction functions and EditorState's *)
(* undo/redo history.                                                      *)
(*                                                                         *)
(* Every JavaScript object carries an `id`: two records are the same       *)
(* object (===) exactly when they are equal including the id.  A function  *)
(* that allocates objects takes the first free id as `fresh`.  A call      *)
(* either returns a value or throws: Return(v) / Throw(e).                 *)
(***************************************************************************)
EXTENDS Integers, Sequences, FiniteSets, TLC

VARIABLES
  editorState,      \* the EditorState the application holds
  history,          \* the EditorStates passed to the EditorState calls so far, oldest first
  contentState,     \* transaction specification: the input ContentState, as it is on the heap
  selectionState,   \* transaction specification: the input SelectionState
  calls,            \* the calls made so far with their arguments, oldest first
  out,              \* transaction specification: what the last call returned or threw
  nextId,           \* allocator of object identities
  nextKey,          \* generateRandomKey's state
  pool              \* CharacterMetadata's pool: the entries of the Map, oldest first

vars == <<editorState, history, contentState, selectionState, calls, out,
          nextId, nextKey, pool>>

----------------------------------------------------------------------------
(* Bounds of the model *)

MaxBlocks == 3
MaxSteps == 4

----------------------------------------------------------------------------
(* JavaScript values *)

Undefined == [undefined |-> TRUE]
Null == [null |-> TRUE]

\* a boolean and a string, comparable with undefined and null
Bool(b) == [boolean |-> b]
Str(s) == [string |-> s]

Return(v) == [kind |-> "return", value |-> v]
Throw(e) == [kind |-> "throw", error |-> e]

Min(a, b) == IF a < b THEN a ELSE b

\* Array.prototype.slice / String.prototype.slice for 0 <= from, to
Slice(s, from, to) ==
  LET a == Min(from, Len(s))
      b == Min(to, Len(s))
  IN IF a >= b THEN <<>> ELSE SubSeq(s, a + 1, b)

SliceFrom(s, from) == Slice(s, from, Len(s))

\* Array(len).fill(v)
Fill(len, v) == [i \in 1..len |-> v]

Range(s) == {s[i] : i \in 1..Len(s)}

\* Object.assign(state, put) for the fields that state has
Assign(state, put) ==
  [f \in DOMAIN state |-> IF f \in DOMAIN put THEN put[f] ELSE state[f]]

\* inheritAndUpdate(obj, update): a new object, id, that reads as obj but for
\* the fields of update
inheritAndUpdate(obj, update, id) == [Assign(obj, update) EXCEPT !.id = id]

----------------------------------------------------------------------------
(* CharacterMetadata: a style set and an entity key.  The style is a      *)
(* Set, which keeps its members in the order of their insertion: the       *)
(* sequence of the members.  The entity is null or a string.  styleId is  *)
(* the identity of the Set object: 0 for DraftInlineStyle's EMPTY_STYLE,   *)
(* else the identity of the character the Set was made for.                *)

NewCharacterMetadata(id, style, entity) ==
  [id |-> id, style |-> style, styleId |-> IF style = <<>> THEN 0 ELSE id,
   entity |-> entity]

EMPTY == NewCharacterMetadata(1, <<>>, Null)

\* new Set(style).add(member)
SetAdd(style, member) ==
  IF member \in Range(style) THEN style ELSE Append(style, member)

\* new Set(style).delete(member)
SetDelete(style, member) == SelectSeq(style, LAMBDA m : m # member)

\* CharacterMetadata.set: inheritAndUpdate
CharacterMetadata_set(characterMetadata, put, id) ==
  inheritAndUpdate(characterMetadata, put, id)

\* DraftInlineStyle's EMPTY_STYLE
EMPTY_STYLE == <<>>

defaultConfig == [style |-> EMPTY_STYLE, entity |-> Null]

RECURSIVE join(_)
\* Array.prototype.join('\n')
join(strings) ==
  IF strings = <<>> THEN ""
  ELSE IF Len(strings) = 1 THEN strings[1]
  ELSE strings[1] \o "\n" \o join(Tail(strings))

\* a merged config always has a style set: the branch for a missing one is
\* never taken
hashDraftInlineStyle(styleSet) == join(styleSet)

\* config.entity || ''
hashCharacterMetadataConfig(config) ==
  hashDraftInlineStyle(config.style)
    \o (IF config.entity \in {Null, Undefined, Str("")} THEN "" ELSE config.entity.string)

\* the pool when the module is loaded
InitialPool == <<[key |-> hashCharacterMetadataConfig(defaultConfig), value |-> EMPTY]>>

\* Object.assign({}, defaultConfig, config)
mergeConfig(config) ==
  [f \in {"style", "entity"} |->
     IF f \in DOMAIN config THEN config[f] ELSE defaultConfig[f]]

\* Returns the instance and the pool after the call; id is the identity of
\* the CharacterMetadata the call makes when the pool has none.
CharacterMetadata_create(config, entries, id) ==
  IF config = Undefined THEN [value |-> EMPTY, pool |-> entries]
  ELSE LET mergedConfig == mergeConfig(config)
           poolKey == hashCharacterMetadataConfig(mergedConfig)
           newCharacter == NewCharacterMetadata(id, mergedConfig.style, mergedConfig.entity)
       IN IF \E i \in 1..Len(entries) : entries[i].key = poolKey
          THEN [value |-> entries[CHOOSE i \in 1..Len(entries) : entries[i].key = poolKey].value,
                pool |-> entries]
          ELSE [value |-> newCharacter,
                pool |-> Append(entries, [key |-> poolKey, value |-> newCharacter])]

applyStyle(record, style, id) ==
  CharacterMetadata_set(record, [style |-> SetAdd(record.style, style), styleId |-> id], id)

removeStyle(record, style, id) ==
  CharacterMetadata_set(record, [style |-> SetDelete(record.style, style), styleId |-> id],
                        id)

applyEntity(record, entityKey, id) ==
  CharacterMetadata_set(record,
    \* {} is the empty update
    IF record.entity = entityKey THEN <<>> ELSE [entity |-> entityKey], id)

----------------------------------------------------------------------------
(* SelectionState *)

NewSelectionState(id, anchorKey, anchorOffset, focusKey, focusOffset, isBackward, hasFocus) ==
  [id |-> id, anchorKey |-> anchorKey, anchorOffset |-> anchorOffset,
   focusKey |-> focusKey, focusOffset |-> focusOffset,
   isBackward |-> isBackward, hasFocus |-> hasFocus]

\* the key '' of SelectionState.createEmpty() is key 0; generated keys are positive
createEmpty(id, key) == NewSelectionState(id, key, 0, key, 0, FALSE, FALSE)

isCollapsed(s) == s.anchorKey = s.focusKey /\ s.anchorOffset = s.focusOffset
getStartKey(s) == IF s.isBackward THEN s.focusKey ELSE s.anchorKey
getStartOffset(s) == IF s.isBackward THEN s.focusOffset ELSE s.anchorOffset
getEndKey(s) == IF s.isBackward THEN s.anchorKey ELSE s.focusKey
getEndOffset(s) == IF s.isBackward THEN s.anchorOffset ELSE s.focusOffset

\* hasEdgeWithin looking at the anchor alone
hasEdgeWithinAnchor(s, blockKey, start, end) ==
  blockKey = s.anchorKey /\ start <= s.anchorOffset /\ end >= s.anchorOffset

hasEdgeWithin(s, blockKey, start, end) ==
  IF s.anchorKey = s.focusKey /\ s.anchorKey = blockKey
  THEN LET selectionStart == getStartOffset(s)
           selectionEnd == getEndOffset(s)
       IN \/ start <= selectionStart /\ selectionStart <= end
          \/ start <= selectionEnd /\ selectionEnd <= end
  ELSE IF blockKey # s.anchorKey /\ blockKey # s.focusKey THEN FALSE
  ELSE LET offsetToCheck == IF blockKey = s.anchorKey THEN s.anchorOffset
                            ELSE s.focusOffset
       IN start <= offsetToCheck /\ end >= offsetToCheck

----------------------------------------------------------------------------
(* ContentBlock and the block map (an insertion-ordered Map, here the      *)
(* sequence of its values; a block's key is its map key)                   *)

NewContentBlock(id, key, type, text, characterList, depth, data) ==
  [id |-> id, key |-> key, type |-> type, text |-> text,
   characterList |-> characterList, depth |-> depth, data |-> data]

getLength(block) == Len(block.text)

\* The functions handed to findRangesImmutable, by name.  The style of a
\* character is a Set object: === compares the objects, not their members.
areEqualFn(name, a, b) ==
  IF name = "haveEqualStyle" THEN a.styleId = b.styleId
  ELSE IF name = "haveEqualEntity" THEN a.entity = b.entity
  \* BlockTree's areEqual, on decorator keys and on Set objects
  ELSE a = b

\* the filters: emptyFunction.thatReturnsTrue, c => c.hasStyle('BOLD') and
\* c => c.getEntity() !== null
passes(filterFn, value) ==
  IF filterFn = "all" THEN TRUE
  ELSE IF filterFn = "bold" THEN "BOLD" \in Range(value.style)
  ELSE value.entity # Null

RECURSIVE findRangesReduce(_, _, _, _, _)
\* haystack.reduce(...) from nextIndex on: the calls of foundFn in their
\* order, and the cursor at the end
findRangesReduce(haystack, equalFn, filterFn, cursor, nextIndex) ==
  IF nextIndex >= Len(haystack) THEN [found |-> <<>>, cursor |-> cursor]
  ELSE LET value == haystack[nextIndex]
           nextValue == haystack[nextIndex + 1]
       IN IF ~areEqualFn(equalFn, value, nextValue)
          THEN LET rest == findRangesReduce(haystack, equalFn, filterFn, nextIndex,
                                            nextIndex + 1)
               IN [found |-> (IF passes(filterFn, value)
                              THEN <<[start |-> cursor, end |-> nextIndex]>>
                              ELSE <<>>) \o rest.found,
                   cursor |-> rest.cursor]
          ELSE findRangesReduce(haystack, equalFn, filterFn, cursor, nextIndex + 1)

\* the calls foundFn(start, end) in their order
findRangesImmutable(haystack, equalFn, filterFn) ==
  LET reduced == findRangesReduce(haystack, equalFn, filterFn, 0, 1)
  IN IF haystack = <<>> THEN <<>>
     ELSE reduced.found \o
          (IF passes(filterFn, haystack[Len(haystack)])
           THEN <<[start |-> reduced.cursor, end |-> Len(haystack)]>>
           ELSE <<>>)

findStyleRanges(block, filterFn) ==
  findRangesImmutable(block.characterList, "haveEqualStyle", filterFn)

findEntityRanges(block, filterFn) ==
  findRangesImmutable(block.characterList, "haveEqualEntity", filterFn)

HasKey(blockMap, key) == \E i \in 1..Len(blockMap) : blockMap[i].key = key
IndexOfKey(blockMap, key) == CHOOSE i \in 1..Len(blockMap) : blockMap[i].key = key
\* Map.prototype.get
MapGet(blockMap, key) ==
  IF HasKey(blockMap, key) THEN blockMap[IndexOfKey(blockMap, key)] ELSE Undefined
\* Map.prototype.set: an existing key keeps its place, a new key goes last
MapSet(blockMap, key, block) ==
  IF HasKey(blockMap, key)
  THEN [blockMap EXCEPT ![IndexOfKey(blockMap, key)] = block]
  ELSE Append(blockMap, block)
Keys(blockMap) == [i \in 1..Len(blockMap) |-> blockMap[i].key]

----------------------------------------------------------------------------
(* ContentBlockNode: a block of a tree document, with the keys of its      *)
(* children, parent and siblings                                           *)

\* null where a block key is expected
NullKey == -1

NewContentBlockNode(id, key, type, text, characterList, depth, data, children, parent, prevSibling, nextSibling) ==
  [id |-> id, key |-> key, type |-> type, text |-> text,
   characterList |-> characterList, depth |-> depth, data |-> data,
   children |-> children, parent |-> parent,
   prevSibling |-> prevSibling, nextSibling |-> nextSibling]

\* block instanceof ContentBlockNode
IsContentBlockNode(block) == "children" \in DOMAIN block

\* Array.prototype.indexOf, from 0, -1 when absent
indexOf(list, x) ==
  IF \E i \in 1..Len(list) : list[i] = x
  THEN (CHOOSE i \in 1..Len(list) : list[i] = x /\ \A j \in 1..(i - 1) : list[j] # x) - 1
  ELSE -1

\* array.splice(start, 0, item) on a copy of list
splice(list, start, item) ==
  LET from == IF start < 0 THEN (IF Len(list) + start < 0 THEN 0 ELSE Len(list) + start)
              ELSE Min(start, Len(list))
  IN Slice(list, 0, from) \o <<item>> \o SliceFrom(list, from)

\* transformBlock(key, blockMap, block => inheritAndUpdate(block, update)):
\* nothing happens for a falsy key or a key the map lacks
transformBlock(key, blockMap, update, id) ==
  IF key = NullKey \/ key = 0 THEN blockMap
  ELSE IF ~HasKey(blockMap, key) THEN blockMap
  ELSE MapSet(blockMap, key, inheritAndUpdate(MapGet(blockMap, key), update, id))

----------------------------------------------------------------------------
(* ContentState *)

NewContentState(id, blockMap, selectionBefore, selectionAfter) ==
  [id |-> id, blockMap |-> blockMap,
   selectionBefore |-> selectionBefore, selectionAfter |-> selectionAfter]

\* new ContentState(config): the selections are assigned only when one of
\* them is missing from the config
ContentStateConstructor(id, blockMap, selectionBefore, selectionAfter) ==
  IF selectionBefore = Undefined \/ selectionAfter = Undefined
  THEN LET defaultSelectionState == createEmpty(id + 1, 0)
       IN NewContentState(id, blockMap,
            IF selectionBefore = Undefined THEN defaultSelectionState ELSE selectionBefore,
            IF selectionAfter = Undefined THEN defaultSelectionState ELSE selectionAfter)
  ELSE NewContentState(id, blockMap, Undefined, Undefined)

\* ContentState.createFromBlockArray(blocks): ids id (the content) and id + 1
createFromBlockArray(id, blocks) ==
  LET selection == IF Len(blocks) > 0 THEN createEmpty(id + 1, blocks[1].key)
                   ELSE createEmpty(id + 1, 0)
  IN ContentStateConstructor(id, blocks, selection, selection)

----------------------------------------------------------------------------
(* insertIntoList *)

RECURSIVE UnshiftAll(_, _)
\* items.forEach(c => returnList.unshift(c))
UnshiftAll(returnList, items) ==
  IF items = <<>> THEN returnList
  ELSE UnshiftAll(<<Head(items)>> \o returnList, Tail(items))

Reverse(s) == [i \in 1..Len(s) |-> s[Len(s) + 1 - i]]

insertIntoList(targetList, toInsert, offset) ==
  IF offset = Len(targetList) THEN targetList \o toInsert
  ELSE IF offset = 0 THEN UnshiftAll(targetList, Reverse(toInsert))
  ELSE Slice(targetList, 0, offset) \o toInsert \o SliceFrom(targetList, offset)

----------------------------------------------------------------------------
(* insertTextIntoContentState.  The module binds ContentState and          *)
(* SelectionState with `import type` only, which the build erases: the     *)
(* final ContentState.set(...) is a reference to an unbound identifier.    *)

\* insertText without the assertion that the selection is collapsed
insertTextWhateverSelection(content, selection, text, characterMetadata, fresh) ==
  IF Len(text) = 0 THEN Return(content) ELSE Throw("ReferenceError")

insertTextIntoContentState(content, selection, text, characterMetadata, fresh) ==
  IF ~isCollapsed(selection) THEN Throw("Invariant Violation")
  ELSE IF Len(text) = 0 THEN Return(content)
  ELSE
    LET len == Len(text)
        blockMap == content.blockMap
        key == getStartKey(selection)
        offset == getStartOffset(selection)
        block == MapGet(blockMap, key)
        blockText == block.text
        newBlock == [block EXCEPT
                       !.id = fresh,
                       !.text = Slice(blockText, 0, offset) \o text
                                  \o Slice(blockText, offset, getLength(block)),
                       !.characterList = insertIntoList(block.characterList,
                                           Fill(len, characterMetadata), offset)]
        newOffset == offset + len
        newBlockMap == MapSet(blockMap, key, newBlock)
    IN Throw("ReferenceError")

----------------------------------------------------------------------------
(* removeRangeFromContentState.  On ContentBlock documents                 *)
(* isExperimentalTreeBlock is false and parentAncestors stays empty; on    *)
(* tree documents the call ends while parentAncestors is computed.         *)

RECURSIVE removeFromListShift(_, _, _, _, _)
\* while (startOffset < endOffset) { targetList = targetList.shift(); startOffset++; }
\* Array.prototype.shift removes the first element of the array IN PLACE and
\* returns that element.  `array` is the block's character array on the heap;
\* `isArray` says whether targetList still is that array.
removeFromListShift(targetList, isArray, array, startOffset, endOffset) ==
  IF ~(startOffset < endOffset)
  THEN [result |-> Return(targetList), array |-> array]
  ELSE IF ~isArray
  THEN [result |-> Throw("TypeError"), array |-> array]
  ELSE IF array = <<>>
  THEN removeFromListShift(Undefined, FALSE, array, startOffset + 1, endOffset)
  ELSE removeFromListShift(Head(array), FALSE, Tail(array), startOffset + 1, endOffset)

\* an Array has neither count() nor toList(): every path but startOffset = 0 throws
removeFromList(targetList, startOffset, endOffset) ==
  IF startOffset = 0
  THEN removeFromListShift(targetList, TRUE, targetList, startOffset, endOffset)
  ELSE [result |-> Throw("TypeError"), array |-> targetList]

RECURSIVE removeRangeLoop(_, _, _, _, _)
\* the loop over the block map that collects blockMapUpdatedEntries
removeRangeLoop(blockMap, i, loopState, startKey, endKey) ==
  IF i > Len(blockMap) THEN <<>>
  ELSE IF loopState = 0 /\ blockMap[i].key = startKey
  THEN removeRangeLoop(blockMap, i + 1, 1, startKey, endKey)
  ELSE IF loopState = 1 /\ blockMap[i].key = endKey
  THEN <<[key |-> blockMap[i].key, value |-> Null]>>
         \o removeRangeLoop(blockMap, i + 1, 2, startKey, endKey)
  ELSE IF loopState = 1
  THEN <<[key |-> blockMap[i].key, value |-> blockMap[i]]>>
         \o removeRangeLoop(blockMap, i + 1, loopState, startKey, endKey)
  ELSE removeRangeLoop(blockMap, i + 1, loopState, startKey, endKey)

\* the heap after removeRangeFromContentState: the block objects that hold the
\* start block's character array see it as the call left it
HeapAfterRemoveRange(content, selection, array) ==
  [content EXCEPT !.blockMap =
     [i \in 1..Len(content.blockMap) |->
        IF content.blockMap[i].key = getStartKey(selection)
        THEN [content.blockMap[i] EXCEPT !.characterList = array]
        ELSE content.blockMap[i]]]

\* Returns the result of the call and `array`, the start block's character
\* array as the call leaves it on the heap.
removeRangeFromContentState(content, selection, fresh) ==
  LET blockMap == content.blockMap
      startKey == getStartKey(selection)
      startOffset == getStartOffset(selection)
      endKey == getEndKey(selection)
      endOffset == getEndOffset(selection)
      startBlock == MapGet(blockMap, startKey)
      endBlock == MapGet(blockMap, endKey)
      removed == IF startBlock = endBlock
                 THEN removeFromList(startBlock.characterList, startOffset, endOffset)
                 ELSE [result |-> Return(Slice(startBlock.characterList, 0, startOffset)
                                          \o SliceFrom(endBlock.characterList, endOffset)),
                       array |-> startBlock.characterList]
      characterList == removed.result.value
      modifiedStart == [startBlock EXCEPT
                          !.id = fresh,
                          !.text = Slice(startBlock.text, 0, startOffset)
                                     \o SliceFrom(endBlock.text, endOffset),
                          !.characterList = characterList]
      entries == removeRangeLoop(blockMap, 1, 0, startKey, endKey)
      \* .map(([k, _]) => (k === startKey ? modifiedStart : null)): each entry
      \* becomes a bare value, no longer a [key, value] pair
      blockMapUpdatedEntries ==
        [i \in 1..Len(entries) |->
           IF entries[i].key = startKey THEN modifiedStart ELSE Null]
      \* .filter(([_, block]) => !!block) destructures every element: a bare
      \* null or block is not iterable.  The entries of blockMap all pass.
      updatedBlockMap == HeapAfterRemoveRange(content, selection, removed.array).blockMap
  IN IF isCollapsed(selection)
     THEN [result |-> Return(content), array |-> startBlock.characterList]
     \* tree blocks: endBlock.getChildKeys() is an Array, which has no isEmpty()
     ELSE IF IsContentBlockNode(startBlock)
     THEN [result |-> Throw("TypeError"), array |-> startBlock.characterList]
     ELSE IF removed.result.kind = "throw"
     THEN [result |-> removed.result, array |-> removed.array]
     ELSE IF blockMapUpdatedEntries # <<>>
     THEN [result |-> Throw("TypeError"), array |-> removed.array]
     ELSE [result |-> Return(
             [content EXCEPT
                !.id = fresh + 1,
                !.blockMap = updatedBlockMap,
                !.selectionBefore = selection,
                !.selectionAfter =
                   [selection EXCEPT !.id = fresh + 2,
                      !.anchorKey = startKey, !.anchorOffset = startOffset,
                      !.focusKey = startKey, !.focusOffset = startOffset,
                      !.isBackward = FALSE]]),
           array |-> removed.array]
----------------------------------------------------------------------------
(* modifyBlockForContentState *)

RECURSIVE modifyBlockLoop(_, _, _, _, _)
\* the indices of the entries the loop hands to `operation`
modifyBlockLoop(blockMap, i, loopState, startKey, endKey) ==
  IF i > Len(blockMap) THEN <<>>
  ELSE IF loopState = 0 /\ blockMap[i].key = startKey
  THEN modifyBlockLoop(blockMap, i + 1, 1, startKey, endKey)
  ELSE IF loopState = 1 /\ blockMap[i].key = endKey
  THEN <<i>> \o modifyBlockLoop(blockMap, i + 1, 2, startKey, endKey)
  ELSE IF loopState = 1
  THEN <<i>> \o modifyBlockLoop(blockMap, i + 1, loopState, startKey, endKey)
  ELSE modifyBlockLoop(blockMap, i + 1, loopState, startKey, endKey)

\* The callbacks handed to modifyBlockForContentState, as records:
\*   [kind |-> "put", put |-> p]   block => inheritAndUpdate(block, p)
\*   [kind |-> "depth", adjustment |-> a, maxDepth |-> m]
\*                                 the callback of adjustBlockDepthForContentState
\*   [kind |-> "style", ...]       the callback of modifyInlineStyle
\* modifyBlockForContentState calls operation(block) with the block alone:
\* the callback's second parameter, blockKey, is undefined and is no key.
\* New objects: the block (id), the characters (from chars on).
operate(operation, block, id, chars) ==
  IF operation.kind = "put"
  THEN Return(inheritAndUpdate(block, operation.put, id))
  ELSE IF operation.kind = "depth"
  THEN LET depth == block.depth + operation.adjustment
           clamped == IF Min(depth, operation.maxDepth) < 0 THEN 0
                      ELSE Min(depth, operation.maxDepth)
       IN Return(inheritAndUpdate(block, [depth |-> clamped], id))
  ELSE LET sliceStart == IF operation.startKey = operation.endKey
                         THEN operation.startOffset ELSE 0
           sliceEnd == IF operation.startKey = operation.endKey
                       THEN operation.endOffset ELSE getLength(block)
           list == block.characterList
           styled(i) == IF operation.addOrRemove
                        THEN applyStyle(list[i], operation.inlineStyle, chars + i)
                        ELSE removeStyle(list[i], operation.inlineStyle, chars + i)
       \* chars[sliceStart] is undefined behind the end of the list
       IN IF sliceStart < sliceEnd /\ sliceEnd > Len(list) THEN Throw("TypeError")
          ELSE Return(inheritAndUpdate(block,
                 [characterList |->
                    [i \in 1..Len(list) |->
                       IF sliceStart < i /\ i <= sliceEnd THEN styled(i) ELSE list[i]]],
                 id))

\* modifyBlockForContentState setting selectionAfter alone
modifyBlockKeepingSelectionBefore(content, selection, operation, fresh) ==
  Return([content EXCEPT !.id = fresh, !.selectionAfter = selection])

\* New objects: one block per entry handed to `operation` (from fresh on),
\* then the content; the characters from fresh + 8 on, 8 for each block.
\* Returns the content, or throws what `operation` throws.
modifyBlockForContentState(content, selection, operation, fresh) ==
  LET startKey == getStartKey(selection)
      endKey == getEndKey(selection)
      blockMap == content.blockMap
      updated == modifyBlockLoop(blockMap, 1, 0, startKey, endKey)
      position(i) == CHOOSE n \in 1..Len(updated) : updated[n] = i
      operated(i) == operate(operation, blockMap[i], fresh + position(i) - 1,
                             fresh + 8 * position(i))
      \* new Map([...blockMap.entries(), ...blockMapUpdatedEntries])
      newBlockMap ==
        [i \in 1..Len(blockMap) |->
           IF i \in Range(updated) THEN operated(i).value ELSE blockMap[i]]
  IN IF \E i \in Range(updated) : operated(i).kind = "throw"
     THEN Throw("TypeError")
     ELSE Return([content EXCEPT
                    !.id = fresh + Len(updated),
                    !.blockMap = newBlockMap,
                    !.selectionBefore = selection,
                    !.selectionAfter = selection])

\* ContentStateInlineStyle.add (addOrRemove) and .remove
modifyInlineStyle(content, selection, inlineStyle, addOrRemove, fresh) ==
  modifyBlockForContentState(content, selection,
    [kind |-> "style",
     startKey |-> getStartKey(selection), startOffset |-> getStartOffset(selection),
     endKey |-> getEndKey(selection), endOffset |-> getEndOffset(selection),
     inlineStyle |-> inlineStyle, addOrRemove |-> addOrRemove], fresh)

adjustBlockDepthForContentState(content, selection, adjustment, maxDepth, fresh) ==
  modifyBlockForContentState(content, selection,
    [kind |-> "depth", adjustment |-> adjustment, maxDepth |-> maxDepth], fresh)

----------------------------------------------------------------------------
(* applyEntityToContentState *)

\* New objects: the block (id), the characters (from chars on).
applyEntityToContentBlock(contentBlock, start, end, entityKey, id, chars) ==
  LET list == contentBlock.characterList
  \* characterList[start] is undefined behind the end of the list
  IN IF start < end /\ end > Len(list) THEN Throw("TypeError")
     ELSE Return(inheritAndUpdate(contentBlock,
            [characterList |->
               [i \in 1..Len(list) |->
                  IF start < i /\ i <= end THEN applyEntity(list[i], entityKey, chars + i)
                  ELSE list[i]]],
            id))

RECURSIVE applyEntityLoop(_, _, _, _, _)
\* the indices of the blocks the loop hands to applyEntityToContentBlock
applyEntityLoop(blockMap, i, loopState, startKey, endKey) ==
  IF i > Len(blockMap) THEN <<>>
  ELSE LET key == blockMap[i].key
           state == IF loopState = 0 /\ key = startKey THEN 1 ELSE loopState
       IN IF state = 1
          THEN IF key = endKey THEN <<i>>
               ELSE <<i>> \o applyEntityLoop(blockMap, i + 1, state, startKey, endKey)
          ELSE applyEntityLoop(blockMap, i + 1, state, startKey, endKey)

\* what new Map(entries) makes of an entry that is a block instead of a
\* [key, block] pair: block[0] and block[1] are its key and its value
KeylessEntry == [key |-> Undefined, value |-> Undefined]

\* an entry of a block map that holds a block
IsBlock(entry) == "text" \in DOMAIN entry

\* newBlockEntries takes the blocks themselves, not [key, block] pairs: the
\* new Map has the entries of blockMap and, when a block was pushed, the
\* entry undefined -> undefined.  New objects as for
\* modifyBlockForContentState.
applyEntityToContentState(content, selection, entityKey, fresh) ==
  LET blockMap == content.blockMap
      startKey == getStartKey(selection)
      startOffset == getStartOffset(selection)
      endKey == getEndKey(selection)
      endOffset == getEndOffset(selection)
      updated == applyEntityLoop(blockMap, 1, 0, startKey, endKey)
      position(i) == CHOOSE n \in 1..Len(updated) : updated[n] = i
      applied(i) ==
        LET block == blockMap[i]
            sliceStart == IF block.key = startKey THEN startOffset ELSE 0
            sliceEnd == IF block.key = endKey THEN endOffset ELSE getLength(block)
        IN applyEntityToContentBlock(block, sliceStart, sliceEnd, entityKey,
                                     fresh + position(i) - 1, fresh + 8 * position(i))
      newBlockEntries == [n \in 1..Len(updated) |-> applied(updated[n])]
  IN IF \E n \in 1..Len(updated) : newBlockEntries[n].kind = "throw"
     THEN Throw("TypeError")
     ELSE Return([content EXCEPT
                    !.id = fresh + Len(updated),
                    !.blockMap = IF newBlockEntries = <<>> THEN blockMap
                                 ELSE Append(blockMap, KeylessEntry),
                    !.selectionBefore = selection,
                    !.selectionAfter = selection])

----------------------------------------------------------------------------
(* splitBlockInContentState on ContentBlock documents *)

IsListItem(blockType) ==
  blockType = "unordered-list-item" \/ blockType = "ordered-list-item"

\* block => inheritAndUpdate(block, {type: 'unstyled', depth: 0})
SplitToUnstyled == [kind |-> "put", put |-> [type |-> "unstyled", depth |-> 0]]

\* splitBlock that sets the new block into the map under its key, i.e. last
splitBlockAppendingBelow(content, selection, keyBelow, fresh) ==
  LET key == selection.anchorKey
      blockMap == content.blockMap
      blockToSplit == MapGet(blockMap, key)
      offset == selection.anchorOffset
      blockAbove == [blockToSplit EXCEPT
                       !.id = fresh,
                       !.text = Slice(blockToSplit.text, 0, offset),
                       !.characterList = Slice(blockToSplit.characterList, 0, offset)]
      blockBelow == [blockAbove EXCEPT
                       !.id = fresh + 1,
                       !.key = keyBelow,
                       !.text = SliceFrom(blockToSplit.text, offset),
                       !.characterList = SliceFrom(blockToSplit.characterList, offset),
                       !.data = {}]
  IN IF ~isCollapsed(selection) THEN Throw("Invariant Violation")
     ELSE IF blockToSplit = Undefined THEN Throw("Invariant Violation")
     ELSE IF blockToSplit.text = <<>> /\ IsListItem(blockToSplit.type)
     THEN modifyBlockForContentState(content, selection, SplitToUnstyled, fresh)
     ELSE Return(
       [content EXCEPT
          !.id = fresh + 2,
          !.blockMap = MapSet(MapSet(blockMap, key, blockAbove), keyBelow, blockBelow),
          !.selectionBefore = selection,
          !.selectionAfter =
             [selection EXCEPT !.id = fresh + 3,
                !.anchorKey = keyBelow, !.anchorOffset = 0,
                !.focusKey = keyBelow, !.focusOffset = 0,
                !.isBackward = FALSE]])

\* block.getChildKeys() of a block the map may lack
getChildKeys(block) == IF IsContentBlockNode(block) THEN block.children ELSE <<>>

\* updateBlockMapLinks of splitBlockInContentState: the parent takes the new
\* block into its children after the original one, the original's next
\* sibling, the original and the new block are linked.  New objects: fresh
\* to fresh + 3.
\* updateBlockMapLinks that leaves every link as it was
splitBlockKeepingLinks(blockMap, originalBlock, belowBlock, fresh) == blockMap

splitBlockUpdateBlockMapLinks(blockMap, originalBlock, belowBlock, fresh) ==
  LET originalBlockKey == originalBlock.key
      belowBlockKey == belowBlock.key
      parentChildrenList == getChildKeys(MapGet(blockMap, originalBlock.parent))
      insertionIndex == indexOf(parentChildrenList, originalBlockKey) + 1
      withParent == transformBlock(originalBlock.parent, blockMap,
                      [children |-> splice(parentChildrenList, insertionIndex, belowBlockKey)],
                      fresh)
      withNext == transformBlock(originalBlock.nextSibling, withParent,
                    [prevSibling |-> belowBlockKey], fresh + 1)
      withOriginal == transformBlock(originalBlockKey, withNext,
                        [nextSibling |-> belowBlockKey], fresh + 2)
  IN transformBlock(belowBlockKey, withOriginal, [prevSibling |-> originalBlockKey],
                    fresh + 3)

\* keyBelow is the key generateRandomKey() returns.  New objects: the two
\* blocks (fresh, fresh + 1), the content and its selectionAfter (fresh + 2,
\* fresh + 3), the relinked tree blocks (fresh + 4 to fresh + 7).
splitBlockInContentState(content, selection, keyBelow, fresh) ==
  LET key == selection.anchorKey
      blockMap == content.blockMap
      blockToSplit == MapGet(blockMap, key)
      text == blockToSplit.text
      offset == selection.anchorOffset
      chars == blockToSplit.characterList
      blockAbove == [blockToSplit EXCEPT
                       !.id = fresh,
                       !.text = Slice(text, 0, offset),
                       !.characterList = Slice(chars, 0, offset)]
      blockBelow == [blockAbove EXCEPT
                       !.id = fresh + 1,
                       !.key = keyBelow,
                       !.text = SliceFrom(text, offset),
                       !.characterList = SliceFrom(chars, offset),
                       !.data = {}]
      \* the entries before and after the (first) entry that is blockToSplit
      at == CHOOSE i \in 1..Len(blockMap) :
              /\ blockMap[i] = blockToSplit
              /\ \A j \in 1..(i - 1) : blockMap[j] # blockToSplit
      blockMapEntriesBefore == SubSeq(blockMap, 1, at - 1)
      blockMapEntriesAfter ==
        SelectSeq(SubSeq(blockMap, at + 1, Len(blockMap)), LAMBDA b : b # blockToSplit)
      isExperimentalTreeBlock == IsContentBlockNode(blockToSplit)
      splitBlocks == blockMapEntriesBefore \o <<blockAbove, blockBelow>>
                       \o blockMapEntriesAfter
      newBlocks == IF isExperimentalTreeBlock
                   THEN splitBlockUpdateBlockMapLinks(splitBlocks, blockAbove, blockBelow,
                                                      fresh + 4)
                   ELSE splitBlocks
  IN IF ~isCollapsed(selection) THEN Throw("Invariant Violation")
     ELSE IF blockToSplit = Undefined THEN Throw("Invariant Violation")
     ELSE IF text = <<>> /\ IsListItem(blockToSplit.type)
     THEN modifyBlockForContentState(content, selection, SplitToUnstyled, fresh)
     ELSE IF isExperimentalTreeBlock /\ Len(blockToSplit.children) > 0
     THEN Throw("Invariant Violation")
     ELSE Return(
       [content EXCEPT
          !.id = fresh + 2,
          !.blockMap = newBlocks,
          !.selectionBefore = selection,
          !.selectionAfter =
             [selection EXCEPT !.id = fresh + 3,
                !.anchorKey = keyBelow, !.anchorOffset = 0,
                !.focusKey = keyBelow, !.focusOffset = 0,
                !.isBackward = FALSE]])

----------------------------------------------------------------------------
(* insertFragmentIntoContentState on ContentBlock documents *)

\* randomizeBlockMapKeys: every fragment block is copied under a new key
randomizeBlockMapKeys(fragmentBlockMap, firstKey, fresh) ==
  [i \in 1..Len(fragmentBlockMap) |->
     [fragmentBlockMap[i] EXCEPT !.id = fresh + i - 1, !.key = firstKey + i - 1]]

\* BlockMapBuilder.createFromArray: the blocks keyed by their keys, in order
createFromArray(blocks) == blocks

updateExistingBlock(content, selection, blockMap, fragmentBlock, targetKey, targetOffset, fresh) ==
  LET targetBlock == MapGet(blockMap, targetKey)
      text == targetBlock.text
      chars == targetBlock.characterList
      finalKey == targetKey
      finalOffset == targetOffset + Len(fragmentBlock.text)
      newBlock == [targetBlock EXCEPT
                     !.id = fresh,
                     !.text = Slice(text, 0, targetOffset) \o fragmentBlock.text
                                \o SliceFrom(text, targetOffset),
                     !.characterList = insertIntoList(chars, fragmentBlock.characterList,
                                                      targetOffset),
                     !.data = fragmentBlock.data]
      newBlockMap == MapSet(blockMap, targetKey, newBlock)
  IN [content EXCEPT
        !.id = fresh + 1,
        !.blockMap = newBlockMap,
        !.selectionBefore = selection,
        !.selectionAfter =
           [selection EXCEPT !.id = fresh + 2,
              !.anchorKey = finalKey, !.anchorOffset = finalOffset,
              !.focusKey = finalKey, !.focusOffset = finalOffset,
              !.isBackward = FALSE]]

updateHead(block, targetOffset, fragment, id) ==
  LET text == block.text
      chars == block.characterList
      headText == Slice(text, 0, targetOffset)
      headCharacters == Slice(chars, 0, targetOffset)
      appendToHead == fragment[1]
  IN [block EXCEPT
        !.id = id,
        !.text = headText \o appendToHead.text,
        !.characterList = headCharacters \o appendToHead.characterList,
        !.type = IF headText # <<>> THEN block.type ELSE appendToHead.type,
        !.data = appendToHead.data]

updateTail(block, targetOffset, fragment, id) ==
  LET text == block.text
      chars == block.characterList
      blockSize == Len(text)
      tailText == Slice(text, targetOffset, blockSize)
      tailCharacters == Slice(chars, targetOffset, blockSize)
      prependToTail == fragment[Len(fragment)]
  IN [prependToTail EXCEPT
        !.id = id,
        !.text = prependToTail.text \o tailText,
        !.characterList = prependToTail.characterList \o tailCharacters,
        !.data = prependToTail.data]

\* The block map is a Map, which has no first(): the first statement throws.
\* What follows it would allocate the head (fresh), the tail (fresh + 1), the
\* content and its selectionAfter.
insertFragment(content, selection, blockMap, fragment, targetKey, targetOffset, fresh) ==
  LET fragmentSize == Len(fragment)
      tail == fragment[fragmentSize]
      finalOffset == getLength(tail)
      finalKey == tail.key
      Expand(block) ==
        IF block.key # targetKey THEN <<block>>
        ELSE <<updateHead(block, targetOffset, fragment, fresh)>>
               \o Slice(fragment, 1, fragmentSize - 1)
               \o <<updateTail(block, targetOffset, fragment, fresh + 1)>>
      Concat[i \in 0..Len(blockMap)] ==
        IF i = 0 THEN <<>> ELSE Concat[i - 1] \o Expand(blockMap[i])
      newBlockArr == Concat[Len(blockMap)]
      updatedBlockMap == createFromArray(newBlockArr)
  IN Throw("TypeError")

\* firstKey: the first of the keys randomizeBlockMapKeys generates.  The
\* fragment is a Map as well: fragment.first(), the argument of
\* updateExistingBlock, throws before updateExistingBlock is entered.
insertFragmentIntoContentState(content, selection, fragmentBlockMap, firstKey, fresh) ==
  LET blockMap == content.blockMap
      fragment == randomizeBlockMapKeys(fragmentBlockMap, firstKey, fresh)
      after == fresh + Len(fragment)
      targetKey == getStartKey(selection)
      targetOffset == getStartOffset(selection)
      updated == updateExistingBlock(content, selection, blockMap, fragment[1],
                                     targetKey, targetOffset, after)
      targetBlock == MapGet(blockMap, targetKey)
  IN IF ~isCollapsed(selection) THEN Throw("Invariant Violation")
     ELSE IF IsContentBlockNode(targetBlock) /\ Len(targetBlock.children) > 0
     THEN Throw("Invariant Violation")
     ELSE IF Len(fragment) = 1 THEN Throw("TypeError")
     ELSE insertFragment(content, selection, blockMap, fragment,
                         targetKey, targetOffset, after)

----------------------------------------------------------------------------
(* moveBlockInContentState *)

\* a key that is neither null nor ''
Truthy(key) == key # NullKey /\ key # 0

\* ContentState.getBlockAfter: entries[index + 1][1], where entries[index + 1]
\* is undefined behind the last entry
getBlockAfter(content, key) ==
  LET entries == content.blockMap
      index == indexOf(Keys(entries), key)
  IN IF index + 1 < Len(entries) THEN Return(entries[index + 2])
     ELSE Throw("TypeError")

\* ContentState.getBlockBefore: the entries are reversed, then
\* entries[index - 1][1] is read
getBlockBefore(content, key) ==
  LET entries == Reverse(content.blockMap)
      index == indexOf(Keys(entries), key)
  IN IF index - 1 >= 0 THEN Return(entries[index])
     ELSE Throw("TypeError")

\* undefined where a block key is expected: keys[index] outside the array
UndefinedKey == -2

\* keys.lastIndexOf(key): the keys of a Map are distinct
lastIndexOf(list, x) ==
  IF \E i \in 1..Len(list) : list[i] = x
  THEN (CHOOSE i \in 1..Len(list) : list[i] = x /\ \A j \in (i + 1)..Len(list) : list[j] # x) - 1
  ELSE -1

\* ContentState.getKeyBefore: keys[index + 1], undefined behind the last key
getKeyBefore(content, key) ==
  LET keys == Keys(content.blockMap)
      index == lastIndexOf(keys, key)
  IN IF index + 1 < Len(keys) THEN Return(keys[index + 2]) ELSE Return(UndefinedKey)

\* ContentState.getKeyAfter: keys[index + 1], undefined behind the last key
getKeyAfter(content, key) ==
  LET keys == Keys(content.blockMap)
      index == indexOf(keys, key)
  IN IF index + 1 < Len(keys) THEN Return(keys[index + 2]) ELSE Return(UndefinedKey)

RECURSIVE nextNonDescendantBlock(_, _)
\* the nearest of the block and its ancestors that has a next sibling
nextNonDescendantBlock(block, blockMap) ==
  IF block = Undefined THEN Undefined
  ELSE IF Truthy(block.nextSibling) THEN block
  ELSE IF Truthy(block.parent) THEN nextNonDescendantBlock(MapGet(blockMap, block.parent), blockMap)
  ELSE Undefined

\* getNextDelimiterBlockKey: the key of the first block behind the subtree of
\* the block, null when there is none
getNextDelimiterBlockKey(block, blockMap) ==
  IF ~IsContentBlockNode(block) THEN NullKey
  ELSE IF Truthy(block.nextSibling) THEN block.nextSibling
  ELSE IF ~Truthy(block.parent) THEN NullKey
  ELSE LET next == nextNonDescendantBlock(MapGet(blockMap, block.parent), blockMap)
       IN IF next = Undefined THEN NullKey ELSE next.nextSibling

RECURSIVE blocksToBeMoved(_, _, _, _, _)
\* the forEach over the entries from startIndex on: the entries pushed to
\* blockMapEntriesToBeMoved until the first one that is not to be processed
blocksToBeMoved(blockMap, i, blockKey, nextSiblingKey, nextDelimiterBlockKey) ==
  IF i > Len(blockMap) THEN <<>>
  ELSE LET block == blockMap[i]
           key == block.key
           isBlockToBeMoved == key = blockKey
           hasNextSiblingAndIsNotNextSibling ==
             Truthy(nextSiblingKey) /\ key # nextSiblingKey
           doesNotHaveNextSiblingAndIsNotDelimiter ==
             /\ ~Truthy(nextSiblingKey)
             /\ Truthy(block.parent)
             /\ (~Truthy(nextDelimiterBlockKey) \/ key # nextDelimiterBlockKey)
           shouldProcess == \/ isBlockToBeMoved
                            \/ hasNextSiblingAndIsNotNextSibling
                            \/ doesNotHaveNextSiblingAndIsNotDelimiter
       IN IF ~shouldProcess THEN <<>>
          ELSE <<block>> \o blocksToBeMoved(blockMap, i + 1, blockKey, nextSiblingKey,
                                            nextDelimiterBlockKey)

RECURSIVE MapOf(_)
\* new Map(entries): a key that comes twice keeps its first place and its
\* last value
MapOf(entries) ==
  IF entries = <<>> THEN <<>>
  ELSE LET last == entries[Len(entries)]
       IN MapSet(MapOf(SubSeq(entries, 1, Len(entries) - 1)), last.key, last)

\* array.filter((_, index) => index !== at)
filterIndex(list, at) ==
  [i \in 1..(IF at >= 0 /\ at < Len(list) THEN Len(list) - 1 ELSE Len(list)) |->
     IF at >= 0 /\ i > at THEN list[i + 1] ELSE list[i]]

\* updateBlockMapLinks of moveBlockInContentState.  New objects: fresh to
\* fresh + 6, one per block that is relinked.
moveBlockUpdateBlockMapLinks(blockMap, originalBlockToBeMoved, originalTargetBlock, insertionMode, isExperimentalTreeBlock, fresh) ==
  LET isInsertedAfterTarget == insertionMode = "after"
      originalBlockKey == originalBlockToBeMoved.key
      originalTargetKey == originalTargetBlock.key
      originalParentKey == originalBlockToBeMoved.parent
      originalNextSiblingKey == originalBlockToBeMoved.nextSibling
      originalPrevSiblingKey == originalBlockToBeMoved.prevSibling
      newParentKey == originalTargetBlock.parent
      newNextSiblingKey == IF isInsertedAfterTarget THEN originalTargetBlock.nextSibling
                           ELSE originalTargetKey
      newPrevSiblingKey == IF isInsertedAfterTarget THEN originalTargetKey
                           ELSE originalTargetBlock.prevSibling
      \* update old parent
      parentChildrenList == getChildKeys(MapGet(blockMap, originalParentKey))
      oldParent ==
        transformBlock(originalParentKey, blockMap,
          [children |-> filterIndex(parentChildrenList,
                                    indexOf(parentChildrenList, originalBlockKey))],
          fresh)
      oldPrev == transformBlock(originalPrevSiblingKey, oldParent,
                   [nextSibling |-> originalNextSiblingKey], fresh + 1)
      oldNext == transformBlock(originalNextSiblingKey, oldPrev,
                   [prevSibling |-> originalPrevSiblingKey], fresh + 2)
      newNext == transformBlock(newNextSiblingKey, oldNext,
                   [prevSibling |-> originalBlockKey], fresh + 3)
      newPrev == transformBlock(newPrevSiblingKey, newNext,
                   [nextSibling |-> originalBlockKey], fresh + 4)
      \* update new parent
      newParentChildrenList == getChildKeys(MapGet(newPrev, newParentKey))
      targetBlockIndex == indexOf(newParentChildrenList, originalTargetKey)
      insertionIndex == IF isInsertedAfterTarget THEN targetBlockIndex + 1
                        ELSE IF targetBlockIndex # 0 THEN targetBlockIndex - 1
                        ELSE 0
      newParent ==
        transformBlock(newParentKey, newPrev,
          [children |-> splice(newParentChildrenList, insertionIndex, originalBlockKey)],
          fresh + 5)
  IN IF ~isExperimentalTreeBlock THEN blockMap
     ELSE transformBlock(originalBlockKey, newParent,
            [nextSibling |-> newNextSiblingKey,
             prevSibling |-> newPrevSiblingKey,
             parent |-> newParentKey], fresh + 6)

\* SelectionState.set / merge: inheritAndUpdate, whose Object.create throws
\* for undefined
SelectionState_set(selection, put, id) ==
  IF selection = Undefined THEN Throw("TypeError")
  ELSE Return(inheritAndUpdate(selection, put, id))

\* New objects: the relinked blocks (fresh to fresh + 6), the selectionAfter
\* (fresh + 7), the content (fresh + 8).
moveBlockInContentState(content, blockToBeMoved, targetBlock, insertionMode, fresh) ==
  LET targetKey == targetBlock.key
      blockKey == blockToBeMoved.key
      blockMap == content.blockMap
      isExperimentalTreeBlock == IsContentBlockNode(blockToBeMoved)
      withoutBlock == SelectSeq(blockMap, LAMBDA b : b.key # blockKey)
      nextSiblingKey == blockToBeMoved.nextSibling
      nextDelimiterBlockKey == getNextDelimiterBlockKey(blockToBeMoved, withoutBlock)
      startIndex == indexOf(Keys(blockMap), blockKey)
      blockMapEntriesToBeMoved ==
        IF isExperimentalTreeBlock
        THEN blocksToBeMoved(blockMap, IF startIndex < 0 THEN 1 ELSE startIndex + 1,
                             blockKey, nextSiblingKey, nextDelimiterBlockKey)
        ELSE <<blockToBeMoved>>
      blockMapWithoutBlocksToBeMoved ==
        SelectSeq(withoutBlock, LAMBDA b : b.key \notin Range(Keys(blockMapEntriesToBeMoved)))
      \* the entries before and behind the entry that is targetBlock
      atTarget == { i \in 1..Len(blockMapWithoutBlocksToBeMoved) :
                      blockMapWithoutBlocksToBeMoved[i] = targetBlock }
      blockMapEntriesBefore ==
        IF atTarget = {} THEN blockMapWithoutBlocksToBeMoved
        ELSE SubSeq(blockMapWithoutBlocksToBeMoved, 1,
                    (CHOOSE i \in atTarget : \A j \in atTarget : i <= j) - 1)
      blockMapEntriesAfter ==
        IF atTarget = {} THEN <<>>
        ELSE SelectSeq(SubSeq(blockMapWithoutBlocksToBeMoved,
                              (CHOOSE i \in atTarget : \A j \in atTarget : i <= j) + 1,
                              Len(blockMapWithoutBlocksToBeMoved)),
                       LAMBDA b : b # targetBlock)
      blockBefore == getBlockBefore(content, targetKey)
      blockAfter == getBlockAfter(content, targetKey)
      newBlocks ==
        IF insertionMode = "before"
        THEN MapOf(blockMapEntriesBefore \o blockMapEntriesToBeMoved
                     \o <<targetBlock>> \o blockMapEntriesAfter)
        ELSE MapOf(blockMapEntriesBefore \o <<targetBlock>>
                     \o blockMapEntriesToBeMoved \o blockMapEntriesAfter)
      selectionAfter == SelectionState_set(content.selectionAfter,
                          [anchorKey |-> blockKey, focusKey |-> blockKey], fresh + 7)
  IN IF insertionMode = "replace" THEN Throw("Invariant Violation")
     ELSE IF blockKey = targetKey THEN Throw("Invariant Violation")
     ELSE IF insertionMode = "before" /\ blockBefore.kind = "throw" THEN blockBefore
     ELSE IF insertionMode = "before" /\ blockBefore.value.key = blockKey
     THEN Throw("Invariant Violation")
     ELSE IF insertionMode = "after" /\ blockAfter.kind = "throw" THEN blockAfter
     ELSE IF insertionMode = "after" /\ blockAfter.value.key = blockKey
     THEN Throw("Invariant Violation")
     ELSE IF selectionAfter.kind = "throw" THEN selectionAfter
     ELSE Return(
       [content EXCEPT
          !.id = fresh + 8,
          !.blockMap = moveBlockUpdateBlockMapLinks(newBlocks, blockToBeMoved, targetBlock,
                         insertionMode, isExperimentalTreeBlock, fresh),
          !.selectionBefore = content.selectionAfter,
          !.selectionAfter = selectionAfter.value])

----------------------------------------------------------------------------
(* ContentState.createFromText *)

RECURSIVE split(_)
\* text.split(delimiter) for the delimiter "\n"
split(text) ==
  IF \A i \in 1..Len(text) : text[i] # "\n" THEN <<text>>
  ELSE LET at == CHOOSE i \in 1..Len(text) :
                   text[i] = "\n" /\ \A j \in 1..(i - 1) : text[j] # "\n"
       IN <<SubSeq(text, 1, at - 1)>> \o split(SubSeq(text, at + 1, Len(text)))

\* firstKey: the first of the keys generateRandomKey() returns.  New objects:
\* one block per line, then the content and its selection.
createFromText(text, firstKey, fresh) ==
  LET strings == split(text)
      blocks == [i \in 1..Len(strings) |->
                   NewContentBlock(fresh + i - 1, firstKey + i - 1, "unstyled", strings[i],
                                   Fill(Len(strings[i]), EMPTY), 0, {})]
  IN createFromBlockArray(fresh + Len(strings), blocks)

----------------------------------------------------------------------------
(* Entities.  DraftEntity is the registry of the process: an object with   *)
(* the entity instances under their keys.  A ContentState reads its        *)
(* entities from it, whatever its own field entityMap holds.               *)

NewDraftEntityInstance(id, type, mutability, data) ==
  [id |-> id, type |-> type, mutability |-> mutability, data |-> data]

\* {...entityData, ...data}
Spread(entityData, data) ==
  [f \in DOMAIN entityData \cup DOMAIN data |->
     IF f \in DOMAIN data THEN data[f] ELSE entityData[f]]

\* DraftEntity.__get
DraftEntity_get(DraftEntity, key) == DraftEntity[key]

\* ContentState.getEntity
getEntity(content, DraftEntity, key) == DraftEntity_get(DraftEntity, key)

\* getEntityMap returns the registry object; new Map(entityMap) copies it
\* when the registry can be iterated as entries and throws a TypeError when
\* it cannot.  New objects: the instance (fresh), the content (fresh + 1).
updateEntityDataInContentState(content, DraftEntity, iterable, key, data, merge, fresh) ==
  LET instance == getEntity(content, DraftEntity, key)
      entityData == instance.data
      entityMap == DraftEntity
      newData == IF merge THEN Spread(entityData, data) ELSE data
      newInstance == inheritAndUpdate(instance, [data |-> newData], fresh)
      newEntityMap == [entityMap EXCEPT ![key] = newInstance]
  IN IF ~iterable THEN Throw("TypeError")
     ELSE Return([f \in DOMAIN content \cup {"entityMap"} |->
                    IF f = "entityMap" THEN newEntityMap
                    ELSE IF f = "id" THEN fresh + 1
                    ELSE content[f]])

----------------------------------------------------------------------------
(* BlockTree.  A decorator is an object of the application with the method *)
(* getDecorations(block, contentState), which returns one decorator key or *)
(* null for each character of the block; it reads the text of the block.   *)

\* D1 decorates the first character of a block, D2 the first and, in a block
\* of two characters or more, the last
Decorators == {[decorator |-> "D1"], [decorator |-> "D2"]}

getDecorations(decorator, block) ==
  IF ~IsBlock(block) THEN Throw("TypeError")
  ELSE Return([n \in 1..getLength(block) |->
                 IF n = 1 THEN Str("0.0")
                 ELSE IF decorator.decorator = "D2" /\ n = getLength(block) THEN Str("1.0")
                 ELSE Null])

\* inlineStyles = characters.map(c => c.getStyle()): the Set objects
generateLeaves(characters, offset) ==
  LET inlineStyles == [n \in 1..Len(characters) |-> characters[n].styleId]
      found == findRangesImmutable(inlineStyles, "areEqual", "all")
  IN [n \in 1..Len(found) |->
        [start |-> found[n].start + offset, end |-> found[n].end + offset]]

\* Returns the decorator ranges, or throws what getDecorations throws and
\* the TypeError of block.getLength() on what is no block.
generate(content, block, decorator) ==
  IF ~IsBlock(block) THEN Throw("TypeError")
  ELSE IF getLength(block) = 0
  THEN Return(<<[start |-> 0, end |-> 0, decoratorKey |-> Null,
                 leaves |-> <<[start |-> 0, end |-> 0]>>]>>)
  ELSE LET textLength == getLength(block)
           decorated == IF decorator # Null /\ decorator # Undefined
                        THEN getDecorations(decorator, block)
                        ELSE Return(Fill(textLength, Null))
           decorations == decorated.value
           chars == block.characterList
           found == findRangesImmutable(decorations, "areEqual", "all")
       IN IF decorated.kind = "throw" THEN decorated
          ELSE Return([n \in 1..Len(found) |->
                 [start |-> found[n].start,
                  end |-> found[n].end,
                  decoratorKey |-> decorations[found[n].start + 1],
                  leaves |-> generateLeaves(Slice(chars, found[n].start, found[n].end),
                                            found[n].start)]])

----------------------------------------------------------------------------
(* EditorState: the fields of _state but directionMap, which no operation   *)
(* reads back into the other fields.  treeMap is a Map from block keys to   *)
(* trees, kept as the sequence of its entries in insertion order.          *)

EditorStateFields ==
  {"allowUndo", "currentContent", "decorator", "forceSelection", "inCompositionMode",
   "inlineStyleOverride", "lastChangeType", "nativelyRenderedContent", "redoStack",
   "selection", "treeMap", "undoStack"}

\* !v
Falsy(v) == v = Undefined \/ v = Null \/ v = Bool(FALSE)

\* new EditorState({...state}): a field that state lacks reads as undefined
NewEditorState(id, state) ==
  [f \in EditorStateFields \cup {"id"} |->
     IF f = "id" THEN id ELSE IF f \in DOMAIN state THEN state[f] ELSE Undefined]

\* the trees of the blocks of the new content that are not the blocks the
\* previous content holds under the same key
RECURSIVE regenerateChanged(_, _, _, _, _)
regenerateChanged(treeMap, newBlockMap, prevContent, decorator, n) ==
  IF n > Len(newBlockMap) THEN treeMap
  ELSE LET block == newBlockMap[n]
       IN regenerateChanged(
            IF block # MapGet(prevContent.blockMap, block.key)
            THEN MapSet(treeMap, block.key,
                        [key |-> block.key,
                         tree |-> generate(prevContent, block, decorator).value])
            ELSE treeMap,
            newBlockMap, prevContent, decorator, n + 1)

generateNewTreeMap(content, decorator) ==
  regenerateChanged(<<>>, content.blockMap, [blockMap |-> <<>>], decorator, 1)

\* a tree map that is never brought up to date
keepPreviousTreeMap(editor, newBlockMap, decorator) == editor.treeMap

\* new Map([...prevTreeMap.entries(), ...changed]): the previous entries all
\* stay, a changed block's tree replaces the one under its key or goes last
regenerateTreeForNewBlocks(editor, newBlockMap, decorator) ==
  regenerateChanged(editor.treeMap, newBlockMap, editor.currentContent, decorator, 1)

\* The entries of the previous tree map are read as [key, block]: what
\* reaches getDecorations and BlockTree.generate is the tree cached for the
\* key, no block.  The first entry throws.
regenerateTreeForNewDecorator(content, blockMap, previousTreeMap, decorator, existingDecorator) ==
  IF previousTreeMap = <<>> THEN Return(<<>>)
  ELSE LET block == [ranges |-> previousTreeMap[1].tree]
           decorations == getDecorations(decorator, block)
       IN IF decorations.kind = "throw" THEN decorations
          ELSE generate(content, block, decorator)

\* EditorState.getBlockTree
getBlockTree(editor, blockKey) ==
  IF HasKey(editor.treeMap, blockKey) THEN MapGet(editor.treeMap, blockKey).tree
  ELSE Undefined

create(config, id) ==
  LET decorator == IF "decorator" \in DOMAIN config THEN config.decorator ELSE Undefined
  IN [NewEditorState(id, config) EXCEPT
        !.treeMap = generateNewTreeMap(config.currentContent, decorator)]

\* New objects: the selection (fresh), the editor (fresh + 1).
createWithContent(content, fresh) ==
  LET firstBlock == IF content.blockMap = <<>> THEN Undefined ELSE content.blockMap[1]
  IN create([currentContent |-> content,
             undoStack |-> <<>>,
             redoStack |-> <<>>,
             decorator |-> Null,
             selection |-> createEmpty(fresh, IF firstBlock = Undefined THEN 0
                                              ELSE firstBlock.key)],
            fresh + 1)

\* EditorState.set: when the decorator changes, the other fields of `put` are
\* dropped.  The new editor, or what regenerateTreeForNewDecorator throws.
EditorState_set(editor, put, id) ==
  LET existingDecorator == editor.decorator
      decorator ==
        IF "decorator" \notin DOMAIN put THEN existingDecorator
        ELSE IF put.decorator = Null THEN Null
        ELSE IF ~Falsy(put.decorator) THEN put.decorator
        ELSE existingDecorator
      newContent ==
        IF "currentContent" \in DOMAIN put /\ ~Falsy(put.currentContent)
        THEN put.currentContent
        ELSE editor.currentContent
      newTreeMap ==
        IF ~Falsy(decorator) /\ ~Falsy(existingDecorator)
        THEN regenerateTreeForNewDecorator(newContent, newContent.blockMap, editor.treeMap,
                                           decorator, existingDecorator)
        ELSE Return(generateNewTreeMap(newContent, decorator))
      treeMap ==
        IF newContent # editor.currentContent
        THEN regenerateTreeForNewBlocks(editor, newContent.blockMap, decorator)
        ELSE editor.treeMap
  IN IF decorator # existingDecorator
     THEN IF newTreeMap.kind = "throw" THEN newTreeMap
          ELSE [editor EXCEPT !.id = id, !.decorator = decorator,
                              !.treeMap = newTreeMap.value,
                              !.nativelyRenderedContent = Null]
     ELSE [Assign([editor EXCEPT !.treeMap = treeMap], put) EXCEPT !.id = id]

TypingChangeTypes ==
  {Str("insert-characters"), Str("backspace-character"), Str("delete-character")}
overrideChangeTypes == {Str("adjust-depth"), Str("change-block-type"), Str("split-block")}

\* mustBecomeBoundary without the test for the typing change types
mustBecomeBoundaryOnTypeChange(editor, changeType) ==
  changeType # editor.lastChangeType

mustBecomeBoundary(editor, changeType) ==
  LET lastChangeType == editor.lastChangeType
  IN changeType # lastChangeType \/ changeType \notin TypingChangeTypes

\* push that never looks at allowUndo
pushRecordingHistory(editor, content, changeType, forceSelection, fresh) ==
  LET selection == editor.selection
      currentContent == editor.currentContent
      boundary == selection # currentContent.selectionAfter
                    \/ mustBecomeBoundary(editor, changeType)
      undoStack == IF boundary THEN Append(editor.undoStack, currentContent)
                   ELSE editor.undoStack
      newContent ==
        IF boundary
        THEN [content EXCEPT !.id = fresh, !.selectionBefore = selection]
        ELSE IF changeType \in TypingChangeTypes
        THEN [content EXCEPT !.id = fresh,
                             !.selectionBefore = currentContent.selectionBefore]
        ELSE content
      inlineStyleOverride ==
        IF changeType \notin overrideChangeTypes THEN Null
        ELSE editor.inlineStyleOverride
  IN IF currentContent = content THEN editor
     ELSE EditorState_set(editor,
            [currentContent |-> newContent,
             undoStack |-> undoStack,
             redoStack |-> <<>>,
             lastChangeType |-> changeType,
             selection |-> content.selectionAfter,
             forceSelection |-> forceSelection,
             inlineStyleOverride |-> inlineStyleOverride], fresh + 1)

\* push that clears the inline style override whatever the change type
pushClearingOverride(editor, content, changeType, forceSelection, fresh) ==
  LET pushed == pushRecordingHistory(editor, content, changeType, forceSelection, fresh)
  IN IF editor.currentContent = content THEN editor
     ELSE IF Falsy(editor.allowUndo)
     THEN EditorState_set(editor,
            [currentContent |-> content,
             lastChangeType |-> changeType,
             selection |-> content.selectionAfter,
             forceSelection |-> forceSelection,
             inlineStyleOverride |-> Null], fresh)
     ELSE [pushed EXCEPT !.inlineStyleOverride = Null]

\* New objects: the content with its selectionBefore set (fresh) when undo is
\* allowed, then the editor.
push(editor, content, changeType, forceSelection, fresh) ==
  LET selection == editor.selection
      currentContent == editor.currentContent
      boundary == selection # currentContent.selectionAfter
                    \/ mustBecomeBoundary(editor, changeType)
      undoStack == IF boundary THEN Append(editor.undoStack, currentContent)
                   ELSE editor.undoStack
      newContent ==
        IF boundary
        THEN [content EXCEPT !.id = fresh, !.selectionBefore = selection]
        ELSE IF changeType \in TypingChangeTypes
        THEN [content EXCEPT !.id = fresh,
                                  !.selectionBefore = currentContent.selectionBefore]
        ELSE content
      inlineStyleOverride ==
        IF changeType \notin overrideChangeTypes THEN Null
        ELSE editor.inlineStyleOverride
  IN IF currentContent = content THEN editor
     ELSE IF Falsy(editor.allowUndo)
     THEN EditorState_set(editor,
            [currentContent |-> content,
             lastChangeType |-> changeType,
             selection |-> content.selectionAfter,
             forceSelection |-> forceSelection,
             inlineStyleOverride |-> Null], fresh)
     ELSE EditorState_set(editor,
            [currentContent |-> newContent,
             undoStack |-> undoStack,
             redoStack |-> <<>>,
             lastChangeType |-> changeType,
             selection |-> content.selectionAfter,
             forceSelection |-> forceSelection,
             inlineStyleOverride |-> inlineStyleOverride], fresh + 1)

\* undo that never looks at allowUndo
undoWhateverAllowUndo(editor, id) ==
  LET undoStack == editor.undoStack
      currentContent == editor.currentContent
  IN IF undoStack = <<>> THEN editor
     ELSE EditorState_set(editor,
            [currentContent |-> undoStack[1],
             undoStack |-> SliceFrom(undoStack, 1),
             redoStack |-> Append(editor.redoStack, currentContent),
             forceSelection |-> Bool(TRUE),
             inlineStyleOverride |-> Null,
             lastChangeType |-> Str("undo"),
             nativelyRenderedContent |-> Null,
             selection |-> currentContent.selectionBefore], id)

\* undo that takes the selection from the content it restores
undoToRestoredSelection(editor, id) ==
  LET undoStack == editor.undoStack
      newCurrentContent == undoStack[1]
      currentContent == editor.currentContent
  IN IF Falsy(editor.allowUndo) THEN editor
     ELSE IF undoStack = <<>> THEN editor
     ELSE EditorState_set(editor,
            [currentContent |-> newCurrentContent,
             undoStack |-> SliceFrom(undoStack, 1),
             redoStack |-> Append(editor.redoStack, currentContent),
             forceSelection |-> Bool(TRUE),
             inlineStyleOverride |-> Null,
             lastChangeType |-> Str("undo"),
             nativelyRenderedContent |-> Null,
             selection |-> newCurrentContent.selectionBefore], id)

undo(editor, id) ==
  LET undoStack == editor.undoStack
      newCurrentContent == undoStack[1]
      currentContent == editor.currentContent
  IN IF Falsy(editor.allowUndo) THEN editor
     ELSE IF undoStack = <<>> THEN editor
     ELSE EditorState_set(editor,
            [currentContent |-> newCurrentContent,
             undoStack |-> SliceFrom(undoStack, 1),
             redoStack |-> Append(editor.redoStack, currentContent),
             forceSelection |-> Bool(TRUE),
             inlineStyleOverride |-> Null,
             lastChangeType |-> Str("undo"),
             nativelyRenderedContent |-> Null,
             selection |-> currentContent.selectionBefore], id)

redo(editor, id) ==
  LET redoStack == editor.redoStack
      newCurrentContent == redoStack[1]
      currentContent == editor.currentContent
  IN IF Falsy(editor.allowUndo) THEN editor
     ELSE IF redoStack = <<>> THEN editor
     ELSE EditorState_set(editor,
            [currentContent |-> newCurrentContent,
             undoStack |-> Append(editor.undoStack, currentContent),
             redoStack |-> SliceFrom(redoStack, 1),
             forceSelection |-> Bool(TRUE),
             inlineStyleOverride |-> Null,
             lastChangeType |-> Str("redo"),
             nativelyRenderedContent |-> Null,
             selection |-> newCurrentContent.selectionAfter], id)

\* A DraftInlineStyle held in a field of the editor: the Set with its members
InlineStyle(members) == [members |-> members]

setInlineStyleOverride(editor, inlineStyleOverride, id) ==
  EditorState_set(editor, [inlineStyleOverride |-> inlineStyleOverride], id)

updateSelection(editor, selection, forceSelection, id) ==
  EditorState_set(editor,
    [selection |-> selection,
     forceSelection |-> forceSelection,
     nativelyRenderedContent |-> Null,
     inlineStyleOverride |-> Null], id)

acceptSelection(editor, selection, id) ==
  updateSelection(editor, selection, Bool(FALSE), id)

\* New objects: the selection (fresh), the editor (fresh + 1).  A new
\* SelectionState has the class's default hasFocus, false.
moveSelectionToEnd(editor, fresh) ==
  LET blockMap == editor.currentContent.blockMap
      lastBlock == IF blockMap = <<>> THEN Undefined ELSE blockMap[Len(blockMap)]
      lastKey == IF lastBlock = Undefined THEN Undefined ELSE lastBlock.key
      length == IF lastBlock = Undefined THEN Undefined ELSE getLength(lastBlock)
  IN acceptSelection(editor,
       NewSelectionState(fresh, lastKey, length, lastKey, length, FALSE, FALSE),
       fresh + 1)

\* ContentBlock.getInlineStyleAt
getInlineStyleAt(block, offset) ==
  IF offset + 1 \in 1..Len(block.characterList)
  THEN block.characterList[offset + 1].style
  ELSE EMPTY_STYLE

\* The loop over the reversed entries of the block map, from entry n on:
\* the block it stops at, undefined when it runs to the end.
RECURSIVE lookUpwardLoop(_, _, _, _)
lookUpwardLoop(blockMapEntries, n, fromKey, loopState) ==
  IF n > Len(blockMapEntries) THEN Undefined
  ELSE IF loopState = 0 /\ blockMapEntries[n].key = fromKey
  THEN lookUpwardLoop(blockMapEntries, n + 1, fromKey, 1)
  ELSE IF loopState = 1
  THEN lookUpwardLoop(blockMapEntries, n + 1, fromKey, 2)
  ELSE IF loopState = 2 /\ getLength(blockMapEntries[n]) # 0
  THEN blockMapEntries[n]
  ELSE lookUpwardLoop(blockMapEntries, n + 1, fromKey, loopState)

lookUpwardForInlineStyle(content, fromKey) ==
  LET lastNonEmpty == lookUpwardLoop(Reverse(content.blockMap), 1, fromKey, 0)
  IN IF lastNonEmpty # Undefined
     THEN getInlineStyleAt(lastNonEmpty, getLength(lastNonEmpty) - 1)
     ELSE EMPTY_STYLE

getInlineStyleForCollapsedSelection(content, selection) ==
  LET startKey == getStartKey(selection)
      startOffset == getStartOffset(selection)
      startBlock == MapGet(content.blockMap, startKey)
  IN IF startOffset > 0 THEN getInlineStyleAt(startBlock, startOffset - 1)
     ELSE IF getLength(startBlock) # 0 THEN getInlineStyleAt(startBlock, 0)
     ELSE lookUpwardForInlineStyle(content, startKey)

getInlineStyleForNonCollapsedSelection(content, selection) ==
  LET startKey == getStartKey(selection)
      startOffset == getStartOffset(selection)
      startBlock == MapGet(content.blockMap, startKey)
  IN IF startOffset < getLength(startBlock) THEN getInlineStyleAt(startBlock, startOffset)
     ELSE IF startOffset > 0 THEN getInlineStyleAt(startBlock, startOffset - 1)
     ELSE lookUpwardForInlineStyle(content, startKey)

\* override != null is false for null and for undefined
getCurrentInlineStyle(editor) ==
  LET override == editor.inlineStyleOverride
      content == editor.currentContent
      selection == editor.selection
  IN IF override # Null /\ override # Undefined THEN override
     ELSE IF isCollapsed(selection)
     THEN InlineStyle(getInlineStyleForCollapsedSelection(content, selection))
     ELSE InlineStyle(getInlineStyleForNonCollapsedSelection(content, selection))

----------------------------------------------------------------------------
(* The transaction functions as pure functions: TxInit draws a document    *)
(* and a selection, each action applies one function to them once.         *)

NoCall == [op |-> "none"]
LastCall == IF calls = <<>> THEN NoCall ELSE calls[Len(calls)]

Bold == NewCharacterMetadata(2, <<"BOLD">>, Null)
AlphaCharacters ==
  <<EMPTY, Bold, NewCharacterMetadata(3, <<"ITALIC">>, Null),
    NewCharacterMetadata(4, <<"BOLD", "ITALIC">>, Null),
    NewCharacterMetadata(5, <<>>, Str("1"))>>

\* type, depth, text and character list of the sample blocks
SampleBlocks ==
  { [type |-> "unstyled", depth |-> 0, text |-> <<>>, characterList |-> <<>>],
    [type |-> "unordered-list-item", depth |-> 1, text |-> <<>>, characterList |-> <<>>],
    [type |-> "unstyled", depth |-> 0, text |-> <<"A", "l", "p", "h", "a">>,
     characterList |-> AlphaCharacters] }

\* the documents: block i has key i
SampleDocuments ==
  UNION { { [i \in 1..n |->
               NewContentBlock(10 + i, i, f[i].type, f[i].text, f[i].characterList,
                               f[i].depth, {})]
            : f \in [1..n -> SampleBlocks] }
          : n \in 1..MaxBlocks }

\* Tree documents: ContentBlockNodes 1..n in document order, parent[i] the
\* key of the parent of block i, NullKey for a root.  In document order a
\* block follows its parent, or one of its ancestors' subtrees.
RECURSIVE AncestorsOrSelf(_, _)
AncestorsOrSelf(parent, i) ==
  IF parent[i] = NullKey THEN {i} ELSE {i} \cup AncestorsOrSelf(parent, parent[i])

TreeShapes(n) ==
  { parent \in [1..n -> {NullKey} \cup 1..n] :
      /\ parent[1] = NullKey
      /\ \A i \in 2..n :
           parent[i] = NullKey \/ parent[i] \in AncestorsOrSelf(parent, i - 1) }

RECURSIVE SortedSeq(_)
\* the keys of a set in increasing order
SortedSeq(keys) ==
  IF keys = {} THEN <<>>
  ELSE LET least == CHOOSE k \in keys : \A l \in keys : k <= l
       IN <<least>> \o SortedSeq(keys \ {least})

ChildrenOf(parent, k) == SortedSeq({i \in DOMAIN parent : parent[i] = k})

PrevSiblingOf(parent, i) ==
  LET before == {j \in DOMAIN parent : j < i /\ parent[j] = parent[i]}
  IN IF before = {} THEN NullKey ELSE CHOOSE j \in before : \A l \in before : l <= j

NextSiblingOf(parent, i) ==
  LET after == {j \in DOMAIN parent : j > i /\ parent[j] = parent[i]}
  IN IF after = {} THEN NullKey ELSE CHOOSE j \in after : \A l \in after : j <= l

ContainerTypes == {"unstyled", "unordered-list-item"}

\* a block with children is of the container type and has no text, a leaf is
\* an unstyled "ab"
SampleTreeDocuments ==
  UNION { { [i \in 1..n |->
               LET children == ChildrenOf(parent, i)
               IN NewContentBlockNode(10 + i, i,
                    IF children = <<>> THEN "unstyled" ELSE containerType,
                    IF children = <<>> THEN <<"a", "b">> ELSE <<>>,
                    IF children = <<>> THEN <<EMPTY, Bold>> ELSE <<>>,
                    0, {}, children, parent[i],
                    PrevSiblingOf(parent, i), NextSiblingOf(parent, i))]
            : parent \in TreeShapes(n), containerType \in ContainerTypes }
          : n \in 1..MaxBlocks }

SampleTexts == { <<"a", "b">>, <<"a", "\n", "b">>, <<"a", "b", "\n">> }

\* the blocks of the documents ContentState.createFromText builds
CreatedDocuments == { createFromText(text, 1, 11).blockMap : text \in SampleTexts }

Positions(blocks) ==
  { <<i, o>> : i \in 1..Len(blocks), o \in 0..5 } \cap
  UNION { { <<i, o>> : o \in 0..Len(blocks[i].text) } : i \in 1..Len(blocks) }

Precedes(p, q) == p[1] < q[1] \/ (p[1] = q[1] /\ p[2] < q[2])

\* a selection from anchor to focus, backward when the focus precedes the anchor
SampleSelection(id, anchor, focus) ==
  NewSelectionState(id, anchor[1], anchor[2], focus[1], focus[2],
                    Precedes(focus, anchor), TRUE)

InsertTexts == { <<>>, <<"B", "e", "t">> }

SampleFragments ==
  { <<>>,
    <<NewContentBlock(60, 90, "unstyled", <<>>, <<>>, 0, {"fragment"})>>,
    <<NewContentBlock(60, 90, "unstyled", <<"B", "e">>, <<Bold, Bold>>, 0, {"fragment"})>>,
    <<NewContentBlock(60, 90, "unstyled", <<"B">>, <<Bold>>, 0, {"fragment"}),
      NewContentBlock(61, 91, "unstyled", <<"e">>, <<EMPTY>>, 0, {})>> }

TxInit ==
  /\ editorState = Undefined
  /\ pool = InitialPool
  /\ history = <<>>
  /\ calls = <<>>
  /\ out = Undefined
  /\ nextId = 100
  /\ \E blocks \in SampleDocuments \cup SampleTreeDocuments \cup CreatedDocuments :
       /\ nextKey = Len(blocks) + 1
       /\ \E settled \in BOOLEAN :
            \* a content as createFromBlockArray builds it, or one whose
            \* selections an earlier transaction has set
            contentState =
              IF settled
              THEN [createFromBlockArray(30, blocks) EXCEPT
                      !.selectionBefore = createEmpty(31, 1),
                      !.selectionAfter = createEmpty(31, 1)]
              ELSE createFromBlockArray(30, blocks)
       /\ \E anchor \in Positions(blocks), focus \in Positions(blocks) :
            selectionState = SampleSelection(40, anchor, focus)

TxInsertText ==
  /\ contentState # Undefined
  /\ calls = <<>>
  /\ \E text \in InsertTexts :
       /\ calls' = <<[op |-> "insertText", contentState |-> contentState,
                      selectionState |-> selectionState, text |-> text,
                      characterMetadata |-> Bold]>>
       /\ out' = insertTextIntoContentState(contentState, selectionState, text, Bold, nextId)
  /\ nextId' = nextId + 8
  /\ UNCHANGED <<editorState, history, contentState, selectionState, nextKey, pool>>

TxRemoveRange ==
  /\ contentState # Undefined
  /\ calls = <<>>
  /\ LET r == removeRangeFromContentState(contentState, selectionState, nextId)
     IN /\ out' = r.result
        /\ contentState' = HeapAfterRemoveRange(contentState, selectionState, r.array)
  /\ calls' = <<[op |-> "removeRange", contentState |-> contentState,
                 selectionState |-> selectionState]>>
  /\ nextId' = nextId + 8
  /\ UNCHANGED <<editorState, history, selectionState, nextKey, pool>>

TxSplitBlock ==
  /\ contentState # Undefined
  /\ calls = <<>>
  /\ out' = splitBlockInContentState(contentState, selectionState, nextKey, nextId)
  /\ calls' = <<[op |-> "splitBlock", contentState |-> contentState,
                 selectionState |-> selectionState]>>
  /\ nextId' = nextId + 8
  /\ nextKey' = nextKey + 1
  /\ UNCHANGED <<editorState, history, contentState, selectionState, pool>>

TxInsertFragment ==
  /\ contentState # Undefined
  /\ calls = <<>>
  /\ \E fragment \in SampleFragments :
       /\ out' = insertFragmentIntoContentState(contentState, selectionState, fragment,
                                                nextKey, nextId)
       /\ calls' = <<[op |-> "insertFragment", contentState |-> contentState,
                      selectionState |-> selectionState, fragment |-> fragment]>>
       /\ nextKey' = nextKey + Len(fragment)
  /\ nextId' = nextId + 8
  /\ UNCHANGED <<editorState, history, contentState, selectionState, pool>>

EntityKeys == {Null, Str("1")}

TxApplyEntity ==
  /\ contentState # Undefined
  /\ calls = <<>>
  /\ \E entityKey \in EntityKeys :
       /\ out' = applyEntityToContentState(contentState, selectionState, entityKey, nextId)
       /\ calls' = <<[op |-> "applyEntity", contentState |-> contentState,
                      selectionState |-> selectionState, entityKey |-> entityKey]>>
  /\ nextId' = nextId + 64
  /\ UNCHANGED <<editorState, history, contentState, selectionState, nextKey, pool>>

\* ContentStateInlineStyle.add and ContentStateInlineStyle.remove
TxModifyInlineStyle ==
  /\ contentState # Undefined
  /\ calls = <<>>
  /\ \E addOrRemove \in BOOLEAN :
       /\ out' = modifyInlineStyle(contentState, selectionState, "BOLD", addOrRemove, nextId)
       /\ calls' = <<[op |-> IF addOrRemove THEN "addInlineStyle" ELSE "removeInlineStyle",
                      contentState |-> contentState,
                      selectionState |-> selectionState, inlineStyle |-> "BOLD"]>>
  /\ nextId' = nextId + 64
  /\ UNCHANGED <<editorState, history, contentState, selectionState, nextKey, pool>>

DepthAdjustments == {-1, 1}
DepthLimit == 4

\* the inline style overrides of the sample editors: none, or one style
Overrides == {Null, InlineStyle(<<"UNDERLINE">>)}

\* getCurrentInlineStyle of an editor created with the content, the
\* selection and an override
TxGetCurrentInlineStyle ==
  /\ contentState # Undefined
  /\ calls = <<>>
  /\ \E override \in Overrides :
       LET editor == create([currentContent |-> contentState,
                             selection |-> selectionState,
                             decorator |-> Null,
                             inlineStyleOverride |-> override], nextId)
       IN /\ out' = Return(getCurrentInlineStyle(editor))
          /\ calls' = <<[op |-> "getCurrentInlineStyle", contentState |-> contentState,
                         selectionState |-> selectionState,
                         inlineStyleOverride |-> override]>>
  /\ UNCHANGED <<editorState, history, contentState, selectionState, nextId, nextKey, pool>>

\* EditorState.set(editorState, {decorator}) on an editor created with the
\* content, the selection and another decorator
TxSetDecorator ==
  /\ contentState # Undefined
  /\ calls = <<>>
  /\ \E existingDecorator \in Decorators :
       \E decorator \in Decorators \ {existingDecorator} :
         LET editor == create([currentContent |-> contentState,
                               selection |-> selectionState,
                               decorator |-> existingDecorator], nextId)
             newState == EditorState_set(editor, [decorator |-> decorator], nextId + 1)
         IN /\ out' = IF "kind" \in DOMAIN newState THEN newState ELSE Return(newState)
            /\ calls' = <<[op |-> "setDecorator", contentState |-> contentState,
                           selectionState |-> selectionState,
                           existingDecorator |-> existingDecorator,
                           decorator |-> decorator]>>
  /\ UNCHANGED <<editorState, history, contentState, selectionState, nextId, nextKey, pool>>

TxAdjustBlockDepth ==
  /\ contentState # Undefined
  /\ calls = <<>>
  /\ \E adjustment \in DepthAdjustments :
       /\ out' = adjustBlockDepthForContentState(contentState, selectionState, adjustment,
                                                 DepthLimit, nextId)
       /\ calls' = <<[op |-> "adjustBlockDepth", contentState |-> contentState,
                      selectionState |-> selectionState, adjustment |-> adjustment,
                      maxDepth |-> DepthLimit]>>
  /\ nextId' = nextId + 64
  /\ UNCHANGED <<editorState, history, contentState, selectionState, nextKey, pool>>

InsertionModes == {"before", "after", "replace"}

\* moveBlock of the block that holds the anchor, next to the block that holds
\* the focus
TxMoveBlock ==
  /\ contentState # Undefined
  /\ calls = <<>>
  /\ selectionState.anchorOffset = 0 /\ selectionState.focusOffset = 0
  /\ \E insertionMode \in InsertionModes :
       LET blockToBeMoved == MapGet(contentState.blockMap, selectionState.anchorKey)
           targetBlock == MapGet(contentState.blockMap, selectionState.focusKey)
       IN /\ out' = moveBlockInContentState(contentState, blockToBeMoved, targetBlock,
                                            insertionMode, nextId)
          /\ calls' = <<[op |-> "moveBlock", contentState |-> contentState,
                         blockToBeMoved |-> blockToBeMoved, targetBlock |-> targetBlock,
                         insertionMode |-> insertionMode]>>
  /\ nextId' = nextId + 16
  /\ UNCHANGED <<editorState, history, contentState, selectionState, nextKey, pool>>

----------------------------------------------------------------------------
(* The editor: an application holds an EditorState and calls               *)
(* EditorState's operations on it, at most MaxSteps times.                 *)

InitialTexts == { <<>>, <<"a", "b">> }

ChangeTypes ==
  {Str("insert-characters"), Str("backspace-character"), Str("split-block")}

EditorInit ==
  /\ contentState = Undefined
  /\ pool = InitialPool
  /\ selectionState = Undefined
  /\ out = Undefined
  /\ history = <<>>
  /\ calls = <<>>
  /\ nextId = 100
  /\ nextKey = 2
  /\ \E text \in InitialTexts :
       LET content == createFromText(text, 1, 10)
       IN \/ editorState = createWithContent(content, 20)
          \/ \E allowUndo \in BOOLEAN :
               editorState =
                 create([currentContent |-> content,
                         undoStack |-> <<>>,
                         redoStack |-> <<>>,
                         decorator |-> Null,
                         selection |-> createEmpty(20, content.blockMap[1].key),
                         allowUndo |-> Bool(allowUndo)], 21)

Called(call) ==
  /\ editorState # Undefined
  /\ Len(calls) < MaxSteps
  /\ history' = Append(history, editorState)
  /\ calls' = Append(calls, call)
  /\ nextId' = nextId + 8
  /\ UNCHANGED <<contentState, selectionState, out, pool>>

\* the contents the application pushes: the current content again, or the
\* current content with the block under the cursor split
PushInputs ==
  LET current == editorState.currentContent
      selection == editorState.selection
      splitHere == splitBlockInContentState(current, selection, nextKey, nextId)
  IN { <<current, Str("insert-characters")>> } \cup
     IF selection # Undefined /\ splitHere.kind = "return"
     THEN { <<splitHere.value, changeType>> : changeType \in ChangeTypes }
     ELSE {}

Push ==
  /\ editorState # Undefined
  /\ \E input \in PushInputs :
       /\ editorState' = push(editorState, input[1], input[2], Bool(TRUE), nextId + 4)
       /\ Called([op |-> "push", contentState |-> input[1], changeType |-> input[2],
                  forceSelection |-> Bool(TRUE)])
  /\ nextKey' = nextKey + 1

Undo ==
  /\ editorState # Undefined
  /\ editorState' = undo(editorState, nextId)
  /\ Called([op |-> "undo"])
  /\ UNCHANGED nextKey

Redo ==
  /\ editorState # Undefined
  /\ editorState' = redo(editorState, nextId)
  /\ Called([op |-> "redo"])
  /\ UNCHANGED nextKey

MoveSelectionToEnd ==
  /\ editorState # Undefined
  /\ editorState' = moveSelectionToEnd(editorState, nextId)
  /\ Called([op |-> "moveSelectionToEnd"])
  /\ UNCHANGED nextKey

\* EditorState.set(editorState, {allowUndo})
SetAllowUndo ==
  /\ editorState # Undefined
  /\ \E allowUndo \in {Bool(TRUE), Bool(FALSE)} \ {editorState.allowUndo} :
       /\ editorState' = EditorState_set(editorState, [allowUndo |-> allowUndo], nextId)
       /\ Called([op |-> "set", allowUndo |-> allowUndo])
  /\ UNCHANGED nextKey

\* the application sets an override on the editor it has just created
SetInlineStyleOverride ==
  /\ editorState # Undefined
  /\ calls = <<>>
  /\ editorState' = setInlineStyleOverride(editorState, InlineStyle(<<"BOLD">>), nextId)
  /\ Called([op |-> "setInlineStyleOverride", inlineStyleOverride |-> InlineStyle(<<"BOLD">>)])
  /\ UNCHANGED nextKey

----------------------------------------------------------------------------
(* The queries of a SelectionState: SelectionInit draws a selection, each  *)
(* action asks it one question.                                            *)

\* the selection lies in blocks 1 and 2; block 3 holds no edge of it
SelectionKeys == 1..2
QueryKeys == 1..3
QueryOffsets == 0..2

SelectionInit ==
  /\ editorState = Undefined
  /\ pool = InitialPool
  /\ contentState = Undefined
  /\ history = <<>>
  /\ calls = <<>>
  /\ out = Undefined
  /\ nextId = 100
  /\ nextKey = 1
  /\ \E anchor \in SelectionKeys \X QueryOffsets, focus \in SelectionKeys \X QueryOffsets :
       selectionState = SampleSelection(40, anchor, focus)

HasEdgeWithin ==
  /\ editorState = Undefined
  /\ contentState = Undefined
  /\ selectionState # Undefined
  /\ calls = <<>>
  /\ \E blockKey \in QueryKeys, start \in QueryOffsets, end \in QueryOffsets :
       /\ out' = Return(Bool(hasEdgeWithin(selectionState, blockKey, start, end)))
       /\ calls' = <<[op |-> "hasEdgeWithin", selectionState |-> selectionState,
                      blockKey |-> blockKey, start |-> start, end |-> end]>>
  /\ UNCHANGED <<editorState, history, contentState, selectionState, nextId, nextKey, pool>>

----------------------------------------------------------------------------
(* CharacterMetadata's pool: calls of create, then one call of applyStyle, *)
(* removeStyle or applyEntity on an instance that create returned.         *)

MaxCreates == 3

\* no config, and configs with a style, an entity or both; style names are
\* any strings, entity keys are decimal numbers
SampleConfigs ==
  { Undefined,
    [entity |-> Null],
    [style |-> <<>>, entity |-> Null],
    [style |-> <<"BOLD", "ITALIC">>],
    [style |-> <<"ITALIC", "BOLD">>],
    [style |-> <<"BOLD">>, entity |-> Str("1")],
    [style |-> <<"BOLD1">>],
    [entity |-> Str("1")] }

PoolInit ==
  /\ editorState = Undefined
  /\ contentState = Undefined
  /\ selectionState = Undefined
  /\ pool = InitialPool
  /\ history = <<>>
  /\ calls = <<>>
  /\ out = Undefined
  /\ nextId = 100
  /\ nextKey = 1

InPoolWorld ==
  /\ editorState = Undefined
  /\ contentState = Undefined
  /\ selectionState = Undefined
  /\ \A i \in 1..Len(calls) : calls[i].op = "CharacterMetadata.create"

Create ==
  /\ InPoolWorld
  /\ Len(calls) < MaxCreates
  /\ \E config \in SampleConfigs :
       LET created == CharacterMetadata_create(config, pool, nextId)
       IN /\ out' = Return(created.value)
          /\ pool' = created.pool
          /\ calls' = Append(calls, [op |-> "CharacterMetadata.create", config |-> config,
                                     result |-> created.value])
  /\ nextId' = nextId + 1
  /\ UNCHANGED <<editorState, history, contentState, selectionState, nextKey>>

PooledInstances == {pool[i].value : i \in 1..Len(pool)}

ApplyStyle ==
  /\ InPoolWorld
  /\ \E record \in PooledInstances, style \in {"BOLD", "ITALIC"} :
       /\ out' = Return(applyStyle(record, style, nextId))
       /\ calls' = Append(calls, [op |-> "CharacterMetadata.applyStyle", record |-> record, style |-> style])
  /\ nextId' = nextId + 1
  /\ UNCHANGED <<editorState, history, contentState, selectionState, nextKey, pool>>

RemoveStyle ==
  /\ InPoolWorld
  /\ \E record \in PooledInstances, style \in {"BOLD", "ITALIC"} :
       /\ out' = Return(removeStyle(record, style, nextId))
       /\ calls' = Append(calls, [op |-> "CharacterMetadata.removeStyle", record |-> record, style |-> style])
  /\ nextId' = nextId + 1
  /\ UNCHANGED <<editorState, history, contentState, selectionState, nextKey, pool>>

ApplyEntity ==
  /\ InPoolWorld
  /\ \E record \in PooledInstances, entityKey \in EntityKeys :
       /\ out' = Return(applyEntity(record, entityKey, nextId))
       /\ calls' = Append(calls, [op |-> "CharacterMetadata.applyEntity", record |-> record,
                                  entityKey |-> entityKey])
  /\ nextId' = nextId + 1
  /\ UNCHANGED <<editorState, history, contentState, selectionState, nextKey, pool>>

----------------------------------------------------------------------------
(* The ranges of a block: one call of findStyleRanges or findEntityRanges  *)
(* on a block whose characters were made by the constructor, applyStyle    *)
(* and applyEntity.                                                        *)

MaxCharacters == 3

SampleCharacters ==
  { EMPTY, Bold, applyStyle(EMPTY, "BOLD", 6), applyStyle(EMPTY, "BOLD", 7),
    NewCharacterMetadata(5, <<>>, Str("1")), applyEntity(Bold, Str("1"), 8) }

SampleCharacterLists ==
  UNION { [1..n -> SampleCharacters] : n \in 0..MaxCharacters }

Filters == {"all", "bold", "entity"}

\* the block of a character list: its text is one "x" for each character
BlockOf(list) ==
  NewContentBlock(11, 1, "unstyled", Fill(Len(list), "x"), list, 0, {})

FindStyleRanges ==
  /\ InPoolWorld
  /\ calls = <<>>
  /\ \E list \in SampleCharacterLists, filterFn \in Filters :
       /\ out' = Return(findStyleRanges(BlockOf(list), filterFn))
       /\ calls' = <<[op |-> "findStyleRanges", characterList |-> list,
                      filterFn |-> filterFn]>>
  /\ UNCHANGED <<editorState, history, contentState, selectionState, nextId, nextKey, pool>>

Generate ==
  /\ InPoolWorld
  /\ calls = <<>>
  /\ \E list \in SampleCharacterLists, decorator \in {Null} \cup Decorators :
       /\ out' = generate(Undefined, BlockOf(list), decorator)
       /\ calls' = <<[op |-> "generate", block |-> BlockOf(list),
                      decorator |-> decorator]>>
  /\ UNCHANGED <<editorState, history, contentState, selectionState, nextId, nextKey, pool>>

FindEntityRanges ==
  /\ InPoolWorld
  /\ calls = <<>>
  /\ \E list \in SampleCharacterLists, filterFn \in Filters :
       /\ out' = Return(findEntityRanges(BlockOf(list), filterFn))
       /\ calls' = <<[op |-> "findEntityRanges", characterList |-> list,
                      filterFn |-> filterFn]>>
  /\ UNCHANGED <<editorState, history, contentState, selectionState, nextId, nextKey, pool>>

\* the registry of the sample calls: a link and a token
SampleDraftEntity ==
  [key \in {"1", "2"} |->
     IF key = "1"
     THEN NewDraftEntityInstance(70, "LINK", "MUTABLE", [url |-> "a", rel |-> "b"])
     ELSE NewDraftEntityInstance(71, "TOKEN", "IMMUTABLE", [name |-> "c"])]

SampleEntityData == { [url |-> "z"], [url |-> "a", rel |-> "b"], [title |-> "t"] }

UpdateEntityData ==
  /\ InPoolWorld
  /\ calls = <<>>
  /\ \E key \in DOMAIN SampleDraftEntity, data \in SampleEntityData, merge \in BOOLEAN :
       \E iterable \in BOOLEAN, text \in SampleTexts :
         LET content == createFromText(text, 1, 11)
         IN /\ out' = updateEntityDataInContentState(content, SampleDraftEntity, iterable, key,
                                                     data, merge, nextId)
            /\ calls' = <<[op |-> "updateEntityData", content |-> content,
                           DraftEntity |-> SampleDraftEntity, key |-> key, data |-> data,
                           merge |-> merge]>>
  /\ UNCHANGED <<editorState, history, contentState, selectionState, nextId, nextKey, pool>>

\* one call of getKeyBefore, getKeyAfter, getBlockBefore or getBlockAfter on
\* a sample document, for a key of the document
NeighbourMethods == {"getKeyBefore", "getKeyAfter", "getBlockBefore", "getBlockAfter"}

GetNeighbour ==
  /\ InPoolWorld
  /\ calls = <<>>
  /\ \E blocks \in SampleDocuments, method \in NeighbourMethods :
       \E key \in Range(Keys(blocks)) :
         LET content == createFromBlockArray(30, blocks)
         IN /\ out' = IF method = "getKeyBefore" THEN getKeyBefore(content, key)
                      ELSE IF method = "getKeyAfter" THEN getKeyAfter(content, key)
                      ELSE IF method = "getBlockBefore" THEN getBlockBefore(content, key)
                      ELSE getBlockAfter(content, key)
            /\ calls' = <<[op |-> method, content |-> content, key |-> key]>>
  /\ UNCHANGED <<editorState, history, contentState, selectionState, nextId, nextKey, pool>>

\* the selections a config of new ContentState may hold: none, a cursor, a
\* range
SampleConfigSelections ==
  { Undefined, SampleSelection(40, <<1, 0>>, <<1, 0>>), SampleSelection(41, <<1, 1>>, <<1, 0>>) }

\* one ContentState built by createFromText, by createFromBlockArray or by
\* the constructor
Construct ==
  /\ InPoolWorld
  /\ calls = <<>>
  /\ \/ \E text \in SampleTexts :
          /\ out' = Return(createFromText(text, 1, 11))
          /\ calls' = <<[op |-> "createFromText", text |-> text]>>
     \/ \E blocks \in SampleDocuments :
          /\ out' = Return(createFromBlockArray(30, blocks))
          /\ calls' = <<[op |-> "createFromBlockArray", blocks |-> blocks]>>
     \/ \E blocks \in CreatedDocuments :
          \E selectionBefore \in SampleConfigSelections, selectionAfter \in SampleConfigSelections :
            /\ out' = Return(ContentStateConstructor(30, blocks, selectionBefore, selectionAfter))
            /\ calls' = <<[op |-> "new ContentState", blocks |-> blocks,
                           selectionBefore |-> selectionBefore,
                           selectionAfter |-> selectionAfter]>>
  /\ UNCHANGED <<editorState, history, contentState, selectionState, nextId, nextKey, pool>>

----------------------------------------------------------------------------
(* getUpdatedSelectionState: the selection of the editor brought up to     *)
(* date with an anchor and a focus given by the offset keys of the leaves  *)
(* they are in and the offsets in those leaves                             *)

\* DraftOffsetKey.encode(blockKey, decoratorKey, leafKey): the three parts
\* of the string, decoratorKey and leafKey counted from 0
DraftOffsetKey_encode(blockKey, decoratorKey, leafKey) == <<blockKey, decoratorKey, leafKey>>

DraftOffsetKey_decode(offsetKey) ==
  [blockKey |-> offsetKey[1], decoratorKey |-> offsetKey[2], leafKey |-> offsetKey[3]]

\* nullthrows(blockTree[path.decoratorKey]).leaves[path.leafKey]; Undefined
\* where nullthrows, or the read of a field of undefined, throws
leafAt(editor, path) ==
  IF ~HasKey(editor.treeMap, path.blockKey) THEN Undefined
  ELSE LET blockTree == getBlockTree(editor, path.blockKey)
       IN IF path.decoratorKey + 1 \notin DOMAIN blockTree THEN Undefined
          ELSE IF path.leafKey + 1 \notin DOMAIN blockTree[path.decoratorKey + 1].leaves
          THEN Undefined
          ELSE blockTree[path.decoratorKey + 1].leaves[path.leafKey + 1]

\* Array.from(keys).filter(v => !(v === anchorBlockKey || v === focusBlockKey))[0]
firstKeyOutside(keys, anchorBlockKey, focusBlockKey) ==
  LET outside == SelectSeq(keys, LAMBDA v : ~(v = anchorBlockKey \/ v = focusBlockKey))
  IN IF outside = <<>> THEN UndefinedKey ELSE outside[1]

\* New object: the selection (fresh).  The offset keys are strings that are
\* not empty.
getUpdatedSelectionState(editor, anchorKey, anchorOffset, focusKey, focusOffset, fresh) ==
  LET selection == editor.selection
      anchorPath == DraftOffsetKey_decode(anchorKey)
      anchorBlockKey == anchorPath.blockKey
      anchorLeaf == leafAt(editor, anchorPath)
      focusPath == DraftOffsetKey_decode(focusKey)
      focusBlockKey == focusPath.blockKey
      focusLeaf == leafAt(editor, focusPath)
  IN IF selection \in {Null, Undefined} THEN Throw("Error")
     ELSE IF anchorLeaf = Undefined \/ focusLeaf = Undefined THEN Throw("TypeError")
     ELSE LET anchorLeafStart == anchorLeaf.start
              focusLeafStart == focusLeaf.start
              anchorBlockOffset == anchorLeafStart + anchorOffset
              focusBlockOffset == focusLeafStart + focusOffset
              areEqual == /\ selection.anchorKey = anchorBlockKey
                          /\ selection.anchorOffset = anchorBlockOffset
                          /\ selection.focusKey = focusBlockKey
                          /\ selection.focusOffset = focusBlockOffset
              isBackward ==
                IF anchorBlockKey = focusBlockKey
                THEN IF focusLeafStart = anchorLeafStart /\ focusLeaf.end = anchorLeaf.end
                     THEN focusOffset < anchorOffset
                     ELSE focusLeafStart < anchorLeafStart
                ELSE firstKeyOutside(Keys(editor.currentContent.blockMap),
                                     anchorBlockKey, focusBlockKey) = focusBlockKey
          IN IF areEqual THEN Return(selection)
             ELSE Return(inheritAndUpdate(selection,
                           [anchorKey |-> anchorBlockKey, anchorOffset |-> anchorBlockOffset,
                            focusKey |-> focusBlockKey, focusOffset |-> focusBlockOffset,
                            isBackward |-> isBackward], fresh))

\* the offset keys of the leaves of the editor, as DraftEditorNode renders
\* them
OffsetKeys(editor) ==
  UNION { UNION { { DraftOffsetKey_encode(editor.treeMap[b].key, ii - 1, jj - 1)
                    : jj \in DOMAIN editor.treeMap[b].tree[ii].leaves }
                  : ii \in DOMAIN editor.treeMap[b].tree }
          : b \in DOMAIN editor.treeMap }

\* the offsets in the leaf of an offset key
OffsetsIn(editor, offsetKey) ==
  LET leaf == leafAt(editor, DraftOffsetKey_decode(offsetKey))
  IN 0..(leaf.end - leaf.start)

GetUpdatedSelectionState ==
  /\ InPoolWorld
  /\ calls = <<>>
  /\ \E blocks \in SampleDocuments :
       LET editor == createWithContent(createFromBlockArray(30, blocks), 40)
       IN \E anchorKey \in OffsetKeys(editor), focusKey \in OffsetKeys(editor) :
            \E anchorOffset \in OffsetsIn(editor, anchorKey),
               focusOffset \in OffsetsIn(editor, focusKey) :
              /\ out' = getUpdatedSelectionState(editor, anchorKey, anchorOffset,
                                                 focusKey, focusOffset, nextId)
              /\ calls' = <<[op |-> "getUpdatedSelectionState", editorState |-> editor,
                             anchorKey |-> anchorKey, anchorOffset |-> anchorOffset,
                             focusKey |-> focusKey, focusOffset |-> focusOffset]>>
  /\ UNCHANGED <<editorState, history, contentState, selectionState, nextId, nextKey, pool>>

Init == EditorInit \/ TxInit \/ SelectionInit \/ PoolInit

Next ==
  \/ Push
  \/ Undo
  \/ Redo
  \/ MoveSelectionToEnd
  \/ SetAllowUndo
  \/ SetInlineStyleOverride
  \/ TxInsertText
  \/ TxRemoveRange
  \/ TxSplitBlock
  \/ TxInsertFragment
  \/ TxMoveBlock
  \/ TxApplyEntity
  \/ TxModifyInlineStyle
  \/ TxAdjustBlockDepth
  \/ TxGetCurrentInlineStyle
  \/ TxSetDecorator
  \/ HasEdgeWithin
  \/ Create
  \/ ApplyStyle
  \/ RemoveStyle
  \/ ApplyEntity
  \/ FindStyleRanges
  \/ FindEntityRanges
  \/ Generate
  \/ UpdateEntityData
  \/ GetNeighbour
  \/ Construct
  \/ GetUpdatedSelectionState

Spec == Init /\ [][Next]_vars

----------------------------------------------------------------------------
(* Properties of EditorState's history *)

\* the EditorState passed to the k-th call and the one it returned
StateBefore(k) == history[k]
StateAfter(k) == IF k = Len(calls) THEN editorState ELSE history[k + 1]
Before == history[Len(history)]

\* the k-th call pushed a content other than the current one
PushedNew(k) ==
  /\ calls[k].op = "push"
  /\ calls[k].contentState # StateBefore(k).currentContent

\* C1: with undo enabled, after a sequence of pushes that each created a
\* boundary, undo makes the entry added last to the undo stack the current
\* content, removes exactly that entry and appends the content that was
\* current to the redo stack.
C1_UndoRestoresLatestEntry ==
  (/\ LastCall.op = "undo"
   /\ Len(calls) >= 2
   /\ StateBefore(1).allowUndo = Bool(TRUE)
   /\ \A k \in 1..(Len(calls) - 1) :
        /\ PushedNew(k)
        /\ StateAfter(k).undoStack
             = Append(StateBefore(k).undoStack, StateBefore(k).currentContent))
  => LET n == Len(Before.undoStack)
     IN /\ editorState.currentContent = Before.undoStack[n]
        /\ editorState.undoStack = SubSeq(Before.undoStack, 1, n - 1)
        /\ editorState.redoStack = Append(Before.redoStack, Before.currentContent)

\* C2: for an editor with undo enabled and at least n entries on the undo
\* stack, n undos followed by n redos give back the current content, the
\* undo stack and the redo stack it had.
C2_RedoInvertsUndo ==
  \A n \in 1..Len(calls) :
    LET first == Len(calls) - 2 * n + 1
    IN (/\ first >= 1
        /\ \A k \in first..(first + n - 1) : calls[k].op = "undo"
        /\ \A k \in (first + n)..Len(calls) : calls[k].op = "redo"
        /\ StateBefore(first).allowUndo = Bool(TRUE)
        /\ Len(StateBefore(first).undoStack) >= n)
       => /\ editorState.currentContent = StateBefore(first).currentContent
          /\ editorState.undoStack = StateBefore(first).undoStack
          /\ editorState.redoStack = StateBefore(first).redoStack

\* the first calls on the editor were three pushes of new contents with
\* 'insert-characters', the selection being the current content's
\* selectionAfter between them
ThreeInsertions ==
  /\ Len(calls) >= 3
  /\ StateBefore(1).allowUndo # Bool(FALSE)
  /\ \A k \in 1..3 : PushedNew(k) /\ calls[k].changeType = Str("insert-characters")
  /\ \A k \in 2..3 : StateBefore(k).selection = StateBefore(k).currentContent.selectionAfter

\* C3: on a freshly created editor three consecutive 'insert-characters'
\* pushes add one undo entry in total; a following 'split-block' push
\* adds a second one, and the undo after it makes the content of the third
\* insertion current again.
C3_TypingCoalesces ==
  /\ ThreeInsertions => Len(StateAfter(3).undoStack) = 1
  /\ (/\ ThreeInsertions
      /\ Len(calls) >= 4
      /\ PushedNew(4) /\ calls[4].changeType = Str("split-block"))
     => /\ Len(StateAfter(4).undoStack) = 2
        /\ (Len(calls) >= 5 /\ calls[5].op = "undo")
           => StateAfter(5).currentContent = StateAfter(3).currentContent

PushedNewWithUndo ==
  /\ LastCall.op = "push"
  /\ Before.allowUndo = Bool(TRUE)
  /\ LastCall.contentState # Before.currentContent

\* C4 as the specification states it: with undo enabled, a push of a new
\* content appends the prior content to the undo stack exactly when
\* changeType differs from lastChangeType or is not a typing change type.
C4_BoundaryByChangeType ==
  PushedNewWithUndo
  => editorState.undoStack
       = IF \/ LastCall.changeType # Before.lastChangeType
            \/ LastCall.changeType \notin TypingChangeTypes
         THEN Append(Before.undoStack, Before.currentContent)
         ELSE Before.undoStack

\* C4: with undo enabled, a push of a new content appends the prior content
\* to the undo stack exactly when the editor's selection is not the
\* selectionAfter object of the current content, or changeType differs from
\* lastChangeType, or changeType is not a typing change type; otherwise the
\* undo stack is unchanged.
C4_BoundaryBySelectionOrChangeType ==
  PushedNewWithUndo
  => editorState.undoStack
       = IF \/ Before.selection # Before.currentContent.selectionAfter
            \/ LastCall.changeType # Before.lastChangeType
            \/ LastCall.changeType \notin TypingChangeTypes
         THEN Append(Before.undoStack, Before.currentContent)
         ELSE Before.undoStack

\* a typing push after a typing push of the same type: no new entry
C4_Witness ==
  /\ PushedNewWithUndo
  /\ LastCall.changeType = Before.lastChangeType
  /\ LastCall.changeType \in TypingChangeTypes
  /\ Before.selection = Before.currentContent.selectionAfter
  /\ Before.undoStack # <<>>
  /\ editorState.undoStack = Before.undoStack

\* the no-op cases of EditorState and of removeRange and insertText
ReturnsItsInput ==
  /\ (LastCall.op = "push" /\ LastCall.contentState = Before.currentContent)
     => editorState = Before
  /\ (LastCall.op = "undo" /\ (Before.undoStack = <<>> \/ Falsy(Before.allowUndo)))
     => editorState = Before
  /\ (LastCall.op = "redo" /\ (Before.redoStack = <<>> \/ Falsy(Before.allowUndo)))
     => editorState = Before
  /\ (LastCall.op = "removeRange" /\ isCollapsed(LastCall.selectionState))
     => out = Return(LastCall.contentState) /\ contentState = LastCall.contentState
  /\ (LastCall.op = "insertText" /\ isCollapsed(LastCall.selectionState)
        /\ LastCall.text = <<>>)
     => out = Return(LastCall.contentState) /\ contentState = LastCall.contentState

InsertsEmptyFragment ==
  /\ LastCall.op = "insertFragment"
  /\ isCollapsed(LastCall.selectionState)
  /\ \A i \in 1..Len(LastCall.fragment) : LastCall.fragment[i].text = <<>>

\* C5 as the specification states it: push of the current content, undo and
\* redo with an empty stack or undo disabled, removeRange with a collapsed
\* selection, and insertText or insertFragment with empty text return their
\* input unchanged.
C5_NoOpsWithInsertFragment ==
  /\ ReturnsItsInput
  /\ InsertsEmptyFragment
     => out = Return(LastCall.contentState) /\ contentState = LastCall.contentState

\* C5: push of the current content, undo and redo with an empty stack or
\* undo disabled return the input EditorState; removeRange with a collapsed
\* selection and insertText with empty text return the input ContentState,
\* which is left as it was; insertFragment with empty text does not return
\* its input.
C5_NoOps ==
  /\ ReturnsItsInput
  /\ InsertsEmptyFragment => out # Return(LastCall.contentState)

\* undo is disabled after a push made an undo entry; undo returns its input
C5_Witness ==
  /\ LastCall.op = "undo"
  /\ Before.allowUndo = Bool(FALSE)
  /\ Before.undoStack # <<>>
  /\ editorState = Before

PushedNewWithoutUndo ==
  /\ LastCall.op = "push"
  /\ Before.allowUndo = Bool(FALSE)
  /\ LastCall.contentState # Before.currentContent

\* C6: when allowUndo is false, a push of a new content makes it the current
\* content and leaves the undo stack and the redo stack as they were.
C6_PushWithoutUndo ==
  PushedNewWithoutUndo
  => /\ editorState.currentContent = LastCall.contentState
     /\ editorState.undoStack = Before.undoStack
     /\ editorState.redoStack = Before.redoStack

\* undo is disabled after a push and an undo left an entry on the redo stack
C6_Witness ==
  /\ PushedNewWithoutUndo
  /\ Before.redoStack # <<>>
  /\ editorState.redoStack = Before.redoStack
  /\ editorState.currentContent = LastCall.contentState

----------------------------------------------------------------------------
(* Properties of the transaction functions *)

CollapsedAt(selection, key, offset) ==
  /\ selection # Undefined
  /\ selection.anchorKey = key /\ selection.focusKey = key
  /\ selection.anchorOffset = offset /\ selection.focusOffset = offset

\* the index of a key in the document order
Position(blockMap, key) == IndexOfKey(blockMap, key)

\* C7: insertText with a collapsed selection at (K, o) and non-empty text t of
\* length n returns a content in which block K has text old[0:o] + t + old[o:]
\* and the old character list with n copies of the given CharacterMetadata
\* inserted at o, every other block is the same object in the same place,
\* and selectionAfter is collapsed at (K, o + n).
C7_InsertTextSplices ==
  (/\ LastCall.op = "insertText"
   /\ isCollapsed(LastCall.selectionState)
   /\ LastCall.text # <<>>)
  => /\ out.kind = "return"
     /\ LET K == LastCall.selectionState.anchorKey
            o == LastCall.selectionState.anchorOffset
            t == LastCall.text
            before == LastCall.contentState.blockMap
            after == out.value.blockMap
            old == MapGet(before, K)
        IN /\ Len(after) = Len(before)
           /\ \A i \in 1..Len(before) :
                IF before[i].key = K
                THEN /\ after[i].key = K
                     /\ after[i].text = Slice(old.text, 0, o) \o t \o SliceFrom(old.text, o)
                     /\ after[i].characterList =
                          Slice(old.characterList, 0, o)
                            \o Fill(Len(t), LastCall.characterMetadata)
                            \o SliceFrom(old.characterList, o)
                ELSE after[i] = before[i]
           /\ CollapsedAt(out.value.selectionAfter, K, o + Len(t))

\* C8: removeRange with a non-collapsed selection [s, e) inside one block A
\* returns a content in which A has text old[0:s] + old[e:] and the character
\* list cut the same way, every block including A is in its place, and
\* selectionAfter is collapsed at (A, s).
C8_RemoveRangeWithinBlock ==
  (/\ LastCall.op = "removeRange"
   /\ ~isCollapsed(LastCall.selectionState)
   /\ LastCall.selectionState.anchorKey = LastCall.selectionState.focusKey)
  => /\ out.kind = "return"
     /\ LET A == getStartKey(LastCall.selectionState)
            start == getStartOffset(LastCall.selectionState)
            end == getEndOffset(LastCall.selectionState)
            before == LastCall.contentState.blockMap
            after == out.value.blockMap
            old == MapGet(before, A)
        IN /\ Len(after) = Len(before)
           /\ \A i \in 1..Len(before) :
                IF before[i].key = A
                THEN /\ after[i].key = A
                     /\ after[i].text = Slice(old.text, 0, start) \o SliceFrom(old.text, end)
                     /\ after[i].characterList =
                          Slice(old.characterList, 0, start)
                            \o SliceFrom(old.characterList, end)
                     /\ Len(after[i].characterList) = Len(after[i].text)
                ELSE after[i] = before[i]
           /\ CollapsedAt(out.value.selectionAfter, A, start)

\* C9: removeRange from (S, i) to (E, j), S strictly before E in the document,
\* returns a content in which S has text S.text[0:i] + E.text[j:] and the
\* character lists concatenated the same way, E and the blocks between S and
\* E are absent, every other block is the same object in the same order, and
\* selectionAfter is collapsed at (S, i).
C9_RemoveRangeAcrossBlocks ==
  (/\ LastCall.op = "removeRange"
   /\ LastCall.selectionState.anchorKey # LastCall.selectionState.focusKey)
  => /\ out.kind = "return"
     /\ LET S == getStartKey(LastCall.selectionState)
            E == getEndKey(LastCall.selectionState)
            i == getStartOffset(LastCall.selectionState)
            j == getEndOffset(LastCall.selectionState)
            before == LastCall.contentState.blockMap
            after == out.value.blockMap
            first == Position(before, S)
            last == Position(before, E)
            removed == last - first
        IN /\ Len(after) = Len(before) - removed
           /\ \A n \in 1..(first - 1) : after[n] = before[n]
           /\ after[first].key = S
           /\ after[first].text = Slice(before[first].text, 0, i)
                                    \o SliceFrom(before[last].text, j)
           /\ after[first].characterList =
                Slice(before[first].characterList, 0, i)
                  \o SliceFrom(before[last].characterList, j)
           /\ \A n \in (last + 1)..Len(before) : after[n - removed] = before[n]
           /\ CollapsedAt(out.value.selectionAfter, S, i)

SplitsBlock ==
  /\ LastCall.op = "splitBlock"
  /\ isCollapsed(LastCall.selectionState)
  /\ LET block == MapGet(LastCall.contentState.blockMap, LastCall.selectionState.anchorKey)
     IN ~(IsListItem(block.type) /\ block.text = <<>>)

\* C10 as the specification states it: splitBlock with a collapsed selection
\* at (K, o) on a block that is not
\* an empty list item returns a content in which K holds text[0:o] and
\* characterList[0:o] and is immediately followed by a block under a key no
\* block had before, holding text[o:] and characterList[o:]; every other
\* block is unchanged and in the same order, and selectionAfter is collapsed
\* at offset 0 of the new block.
C10_SplitBlock ==
  SplitsBlock
  => /\ out.kind = "return"
     /\ LET K == LastCall.selectionState.anchorKey
            o == LastCall.selectionState.anchorOffset
            before == LastCall.contentState.blockMap
            after == out.value.blockMap
            at == Position(before, K)
            old == before[at]
        IN /\ Len(after) = Len(before) + 1
           /\ \A n \in 1..(at - 1) : after[n] = before[n]
           /\ \A n \in (at + 1)..Len(before) : after[n + 1] = before[n]
           /\ after[at].key = K
           /\ after[at].text = Slice(old.text, 0, o)
           /\ after[at].characterList = Slice(old.characterList, 0, o)
           /\ after[at + 1].key \notin Range(Keys(before))
           /\ after[at + 1].text = SliceFrom(old.text, o)
           /\ after[at + 1].characterList = SliceFrom(old.characterList, o)
           /\ CollapsedAt(out.value.selectionAfter, after[at + 1].key, 0)

\* the two blocks hold the same key, type, text, characters, depth and data
SameContents(a, b) ==
  /\ a.key = b.key /\ a.type = b.type /\ a.text = b.text
  /\ a.characterList = b.characterList /\ a.depth = b.depth /\ a.data = b.data

\* C10: splitBlock with a collapsed selection at (K, o) on a block that is not
\* an empty list item and has no children returns a content in which K holds
\* text[0:o] and characterList[0:o] and is immediately followed by a block
\* under a key no block had before, holding text[o:] and characterList[o:];
\* every other block keeps its place and its contents, and selectionAfter is
\* collapsed at offset 0 of the new block.  In a flat document every other
\* block is the same object.  In a tree document the new block is K's next
\* sibling: it follows K in the children of K's parent, it lies between K and
\* K's former next sibling in the sibling links, and no other link changes.
\* On a tree block with children that is not an empty list item splitBlock
\* fails with a fatal assertion.
C10_SplitChildlessBlock ==
  SplitsBlock
  => LET K == LastCall.selectionState.anchorKey
         o == LastCall.selectionState.anchorOffset
         before == LastCall.contentState.blockMap
         at == Position(before, K)
         old == before[at]
     IN IF getChildKeys(old) # <<>>
        THEN out = Throw("Invariant Violation")
        ELSE
          /\ out.kind = "return"
          /\ LET after == out.value.blockMap
                 new == after[at + 1].key
                 \* where block n of the input is in the result
                 place(n) == IF n <= at THEN n ELSE n + 1
             IN /\ Len(after) = Len(before) + 1
                /\ after[at].key = K
                /\ after[at].text = Slice(old.text, 0, o)
                /\ after[at].characterList = Slice(old.characterList, 0, o)
                /\ new \notin Range(Keys(before))
                /\ after[at + 1].text = SliceFrom(old.text, o)
                /\ after[at + 1].characterList = SliceFrom(old.characterList, o)
                /\ CollapsedAt(out.value.selectionAfter, new, 0)
                /\ \A n \in 1..Len(before) :
                     n # at => SameContents(after[place(n)], before[n])
                /\ IF ~IsContentBlockNode(old)
                   THEN \A n \in 1..Len(before) : n # at => after[place(n)] = before[n]
                   ELSE
                     /\ after[at].nextSibling = new
                     /\ after[at].prevSibling = old.prevSibling
                     /\ after[at].parent = old.parent
                     /\ after[at].children = <<>>
                     /\ after[at + 1].prevSibling = K
                     /\ after[at + 1].nextSibling = old.nextSibling
                     /\ after[at + 1].parent = old.parent
                     /\ after[at + 1].children = <<>>
                     /\ \A n \in 1..Len(before) :
                          n # at =>
                            /\ after[place(n)].parent = before[n].parent
                            /\ after[place(n)].nextSibling = before[n].nextSibling
                            /\ after[place(n)].prevSibling =
                                 IF before[n].key = old.nextSibling THEN new
                                 ELSE before[n].prevSibling
                            /\ after[place(n)].children =
                                 IF before[n].key = old.parent
                                 THEN splice(before[n].children,
                                             indexOf(before[n].children, K) + 1, new)
                                 ELSE before[n].children

\* the first of two children is split at offset 1: the new block becomes the
\* second of three children
C10_WitnessTree ==
  /\ SplitsBlock
  /\ LastCall.selectionState.anchorKey = 2
  /\ LastCall.selectionState.anchorOffset = 1
  /\ LET before == LastCall.contentState.blockMap
     IN /\ Len(before) = 3
        /\ IsContentBlockNode(before[1])
        /\ before[1].children = <<2, 3>>
  /\ out.kind = "return"
  /\ out.value.blockMap[1].children = <<2, 4, 3>>
  /\ out.value.blockMap[3].text = <<"b">>
  /\ out.value.blockMap[4].prevSibling = 4

\* "Alpha" in the middle of three blocks, split at offset 2 into "Al" and "pha"
C10_Witness ==
  /\ SplitsBlock
  /\ Len(LastCall.contentState.blockMap) = 3
  /\ LastCall.selectionState.anchorKey = 2
  /\ LastCall.selectionState.anchorOffset = 2
  /\ out.kind = "return"
  /\ Len(out.value.blockMap) = 4
  /\ out.value.blockMap[2].text = <<"A", "l">>
  /\ out.value.blockMap[3].text = <<"p", "h", "a">>

SplitsEmptyListItem ==
  /\ LastCall.op = "splitBlock"
  /\ isCollapsed(LastCall.selectionState)
  /\ LET block == MapGet(LastCall.contentState.blockMap, LastCall.selectionState.anchorKey)
     IN IsListItem(block.type) /\ block.text = <<>>

\* C11: splitBlock with the cursor in an empty list item does not split: the
\* blocks keep their number and order, exactly that block becomes 'unstyled'
\* with depth 0, and every other block keeps its type and depth.
C11_SplitEmptyListItem ==
  SplitsEmptyListItem
  => /\ out.kind = "return"
     /\ LET K == LastCall.selectionState.anchorKey
            before == LastCall.contentState.blockMap
            after == out.value.blockMap
        IN /\ Keys(after) = Keys(before)
           /\ \A i \in 1..Len(before) :
                IF before[i].key = K
                THEN after[i].type = "unstyled" /\ after[i].depth = 0
                ELSE /\ after[i].type = before[i].type
                     /\ after[i].depth = before[i].depth

----------------------------------------------------------------------------
(* Properties of moveBlockInContentState *)

\* block key `inner` is `outer` or lies in its subtree
RECURSIVE InSubtree(_, _, _)
InSubtree(blockMap, inner, outer) ==
  \/ inner = outer
  \/ LET block == MapGet(blockMap, inner)
     IN /\ IsContentBlockNode(block)
        /\ Truthy(block.parent)
        /\ InSubtree(blockMap, block.parent, outer)

\* X sits just before Y in the document
JustBefore(blockMap, X, Y) == Position(blockMap, X) + 1 = Position(blockMap, Y)

\* a move of X next to another block Y outside X's subtree, X not being at
\* that place already
MovesBlock ==
  /\ LastCall.op = "moveBlock"
  /\ LastCall.insertionMode \in {"before", "after"}
  /\ LET blockMap == LastCall.contentState.blockMap
         X == LastCall.blockToBeMoved
         Y == LastCall.targetBlock
     IN /\ ~InSubtree(blockMap, Y.key, X.key)
        /\ LastCall.insertionMode = "before" =>
             /\ ~JustBefore(blockMap, X.key, Y.key)
             /\ IsContentBlockNode(Y) => Y.prevSibling # X.key
        /\ LastCall.insertionMode = "after" =>
             /\ ~JustBefore(blockMap, Y.key, X.key)
             /\ IsContentBlockNode(Y) => Y.nextSibling # X.key

\* C12: moveBlock of X with mode 'after' and target Y returns a document in
\* which X is the block just after Y, with 'before' the block just before Y;
\* for tree blocks X has Y's parent, the former previous and next sibling of
\* X point to each other, and only the new neighbours of X have a
\* prevSibling or nextSibling that is X.
C12_MoveBlockPlacesAndRelinks ==
  MovesBlock
  => /\ out.kind = "return"
     /\ LET X == LastCall.blockToBeMoved
            Y == LastCall.targetBlock
            after == out.value.blockMap
            moved == MapGet(after, X.key)
        IN /\ IF LastCall.insertionMode = "after"
              THEN JustBefore(after, Y.key, X.key)
              ELSE JustBefore(after, X.key, Y.key)
           /\ IsContentBlockNode(X) =>
                /\ moved.parent = MapGet(after, Y.key).parent
                /\ Truthy(X.prevSibling) =>
                     MapGet(after, X.prevSibling).nextSibling = X.nextSibling
                /\ Truthy(X.nextSibling) =>
                     MapGet(after, X.nextSibling).prevSibling = X.prevSibling
                /\ \A i \in 1..Len(after) :
                     /\ after[i].nextSibling = X.key => moved.prevSibling = after[i].key
                     /\ after[i].prevSibling = X.key => moved.nextSibling = after[i].key

\* C13: moveBlock fails with a fatal assertion exactly when the mode is
\* 'replace', the target is the moved block, or the moved block already is
\* just before the target (mode 'before') or just after it (mode 'after');
\* every other move returns a ContentState.
C13_MoveBlockAssertions ==
  LastCall.op = "moveBlock"
  => LET blockMap == LastCall.contentState.blockMap
         X == LastCall.blockToBeMoved.key
         Y == LastCall.targetBlock.key
         mode == LastCall.insertionMode
         nextToItself ==
           \/ mode = "replace"
           \/ X = Y
           \/ mode = "before" /\ JustBefore(blockMap, X, Y)
           \/ mode = "after" /\ JustBefore(blockMap, Y, X)
     IN IF nextToItself THEN out = Throw("Invariant Violation")
        ELSE out.kind = "return"

----------------------------------------------------------------------------
(* Fatal assertions of the transactions *)

\* the last call was made with a selection that is not collapsed
NotCollapsed ==
  /\ LastCall.op \in {"insertText", "insertFragment", "splitBlock"}
  /\ ~isCollapsed(LastCall.selectionState)

\* the last call had a collapsed selection in a tree block with children
InContainer ==
  /\ LastCall.op \in {"insertFragment", "splitBlock"}
  /\ isCollapsed(LastCall.selectionState)
  /\ getChildKeys(MapGet(LastCall.contentState.blockMap,
                         LastCall.selectionState.anchorKey)) # <<>>

\* C14 as the specification states it: insertText, insertFragment and
\* splitBlock with a selection that is not collapsed, and splitBlock and
\* insertFragment in a tree block that has children, end with a fatal
\* assertion and return no ContentState.
C14_FatalAssertions ==
  NotCollapsed \/ InContainer => out = Throw("Invariant Violation")

\* C14: insertText, insertFragment and splitBlock with a selection that is
\* not collapsed, insertFragment in a tree block that has children, and
\* splitBlock in a tree block that has children and is not an empty list
\* item end with a fatal assertion and return no ContentState; splitBlock in
\* an empty list item that has children returns a ContentState with the
\* same keys in the same order.
C14_FatalAssertionsButEmptyListItem ==
  /\ (NotCollapsed \/ InContainer) /\ ~SplitsEmptyListItem
       => out = Throw("Invariant Violation")
  /\ InContainer /\ SplitsEmptyListItem
       => /\ out.kind = "return"
          /\ Keys(out.value.blockMap) = Keys(LastCall.contentState.blockMap)

\* splitBlock with the cursor in an unstyled block that has two children
C14_Witness ==
  /\ InContainer
  /\ LastCall.op = "splitBlock"
  /\ LET block == MapGet(LastCall.contentState.blockMap, LastCall.selectionState.anchorKey)
     IN block.type = "unstyled" /\ Len(block.children) = 2
  /\ out = Throw("Invariant Violation")

----------------------------------------------------------------------------
(* selectionBefore of the returned content *)

SetsSelectionBefore ==
  /\ out.kind = "return"
  /\ out.value.selectionBefore = LastCall.selectionState

\* the last call was one of the transactions that take a selection, and
\* removeRange had a selection that is not collapsed
TransactionReturned ==
  /\ LastCall.op \in {"insertText", "insertFragment", "removeRange", "splitBlock",
                      "applyEntity", "addInlineStyle", "removeInlineStyle",
                      "adjustBlockDepth"}
  /\ LastCall.op = "removeRange" => ~isCollapsed(LastCall.selectionState)
  /\ out # Undefined
  /\ out.kind = "return"

\* insertText with the empty text, insertFragment with the empty fragment
InsertsNothing ==
  \/ LastCall.op = "insertText" /\ LastCall.text = <<>>
  \/ LastCall.op = "insertFragment" /\ LastCall.fragment = <<>>

----------------------------------------------------------------------------
(* The inputs of a call after the call *)

\* C16: after a call of a transaction function the ContentState it was given
\* reads as it read when the call was made: the same keys in the same
\* order, the same texts, character lists, links and selections.
C16_InputsUnchanged ==
  contentState # Undefined /\ calls # <<>> => contentState = LastCall.contentState

----------------------------------------------------------------------------
(* SelectionState.hasEdgeWithin *)

\* the anchor or the focus of the last call's selection lies in the block
\* asked for, at an offset from start to end
EdgeWithin ==
  LET s == LastCall.selectionState
  IN \/ /\ s.anchorKey = LastCall.blockKey
        /\ LastCall.start <= s.anchorOffset /\ s.anchorOffset <= LastCall.end
     \/ /\ s.focusKey = LastCall.blockKey
        /\ LastCall.start <= s.focusOffset /\ s.focusOffset <= LastCall.end

\* C18: hasEdgeWithin(blockKey, start, end) returns true exactly when the
\* anchor or the focus of the selection lies in block blockKey at an offset
\* o with start <= o <= end; it returns false for a block that holds
\* neither the anchor nor the focus.
C18_HasEdgeWithin ==
  LastCall.op = "hasEdgeWithin" =>
    /\ out = Return(Bool(EdgeWithin))
    /\ LastCall.blockKey \notin {LastCall.selectionState.anchorKey,
                                  LastCall.selectionState.focusKey}
         => out = Return(Bool(FALSE))

\* a backward selection inside one block, asked for a window that holds the
\* focus and not the anchor
C18_Witness ==
  /\ LastCall.op = "hasEdgeWithin"
  /\ LET s == LastCall.selectionState
     IN /\ s.anchorKey = s.focusKey /\ s.anchorKey = LastCall.blockKey
        /\ s.isBackward
        /\ LastCall.start <= s.focusOffset /\ s.focusOffset <= LastCall.end
        /\ LastCall.end < s.anchorOffset
  /\ out = Return(Bool(TRUE))

----------------------------------------------------------------------------
(* Character lists and texts *)

\* the last call was given a document that createFromText builds, and
\* returned
ReturnedFromCreated ==
  /\ LastCall.op \in {"insertText", "insertFragment", "removeRange", "splitBlock",
                      "applyEntity", "addInlineStyle", "removeInlineStyle",
                      "adjustBlockDepth"}
  /\ LastCall.contentState.blockMap \in CreatedDocuments
  /\ out.kind = "return"

\* C17: in the content that insertText, insertFragment, removeRange,
\* splitBlock, applyEntity, adding or removing an inline style or
\* adjustBlockDepth returns for a document built by createFromText, every
\* block has as many entries in its character list as characters in its
\* text.
C17_CharacterListAsLongAsText ==
  ReturnedFromCreated =>
    \A i \in 1..Len(out.value.blockMap) :
      LET block == out.value.blockMap[i]
      IN IsBlock(block) => Len(block.characterList) = Len(block.text)

----------------------------------------------------------------------------
(* CharacterMetadata's pool *)

\* the calls of CharacterMetadata.create so far
Creations == {i \in 1..Len(calls) : calls[i].op = "CharacterMetadata.create"}

\* the style set and the entity that create gives the instance
StyleOf(config) == Range(IF config = Undefined THEN EMPTY_STYLE ELSE mergeConfig(config).style)
EntityOf(config) == IF config = Undefined THEN Null ELSE mergeConfig(config).entity

\* C19: two calls of CharacterMetadata.create whose configs have the same
\* members in their style sets, in whatever order, and the same entity
\* return the same instance, whatever was called in between; create with no
\* config, or with an empty style and no entity, returns
\* CharacterMetadata.EMPTY.
C19_CreatePools ==
  /\ \A i \in Creations, j \in Creations :
       /\ StyleOf(calls[i].config) = StyleOf(calls[j].config)
       /\ EntityOf(calls[i].config) = EntityOf(calls[j].config)
       => calls[i].result = calls[j].result
  /\ \A i \in Creations :
       StyleOf(calls[i].config) = {} /\ EntityOf(calls[i].config) = Null
       => calls[i].result = EMPTY

\* the style and the entity the last call of applyStyle, removeStyle or
\* applyEntity asks for
AppliedConfig ==
  LET record == LastCall.record
  IN IF LastCall.op = "CharacterMetadata.applyStyle"
     THEN [style |-> SetAdd(record.style, LastCall.style), entity |-> record.entity]
     ELSE IF LastCall.op = "CharacterMetadata.removeStyle"
     THEN [style |-> SetDelete(record.style, LastCall.style), entity |-> record.entity]
     ELSE [style |-> record.style, entity |-> LastCall.entityKey]

\* C20: applyStyle(r, t), removeStyle(r, t) and applyEntity(r, k) return the
\* instance that CharacterMetadata.create returns for the resulting style
\* set and entity, and leave r as it was; applyEntity(r, k) returns r itself
\* when the entity of r is k already.
C20_AppliesReturnPooled ==
  LastCall.op \in {"CharacterMetadata.applyStyle", "CharacterMetadata.removeStyle",
                   "CharacterMetadata.applyEntity"} =>
    /\ out = Return(CharacterMetadata_create(AppliedConfig, pool, nextId).value)
    /\ LastCall.record \in PooledInstances
    /\ LastCall.op = "CharacterMetadata.applyEntity"
         /\ LastCall.record.entity = LastCall.entityKey
         => out = Return(LastCall.record)

----------------------------------------------------------------------------
(* The blocks of a selection *)

\* block i of the last call's document lies in its selection, from the
\* start block to the end block
InSelection(i) ==
  LET blockMap == LastCall.contentState.blockMap
      s == LastCall.selectionState
  IN /\ Position(blockMap, getStartKey(s)) <= i
     /\ i <= Position(blockMap, getEndKey(s))

Clamp(depth, maxDepth) == IF Min(depth, maxDepth) < 0 THEN 0 ELSE Min(depth, maxDepth)

\* C28: adjustBlockDepth sets the depth of every block from the start block
\* of the selection to its end block, both included, to
\* max(0, min(depth + adjustment, maxDepth)), also when the selection starts
\* and ends in one block.
C28_AdjustBlockDepth ==
  LastCall.op = "adjustBlockDepth" =>
    /\ out.kind = "return"
    /\ LET before == LastCall.contentState.blockMap
           after == out.value.blockMap
       IN /\ Len(after) = Len(before)
          /\ \A i \in 1..Len(before) :
               InSelection(i) =>
                 after[i].depth = Clamp(before[i].depth + LastCall.adjustment,
                                        LastCall.maxDepth)

\* character o (from 0) of block i of the last call's document lies inside
\* its selection
InsideSelection(i, o) ==
  LET blockMap == LastCall.contentState.blockMap
      s == LastCall.selectionState
      sliceStart == IF blockMap[i].key = getStartKey(s) THEN getStartOffset(s) ELSE 0
      sliceEnd == IF blockMap[i].key = getEndKey(s) THEN getEndOffset(s)
                  ELSE getLength(blockMap[i])
  IN InSelection(i) /\ sliceStart <= o /\ o < sliceEnd

\* the returned block map has the blocks of the last call's document, key by
\* key, with character lists of the same lengths
SameBlocksReturned ==
  /\ out.kind = "return"
  /\ Len(out.value.blockMap) = Len(LastCall.contentState.blockMap)
  /\ \A i \in 1..Len(out.value.blockMap) :
       /\ IsBlock(out.value.blockMap[i])
       /\ out.value.blockMap[i].key = LastCall.contentState.blockMap[i].key
       /\ Len(out.value.blockMap[i].characterList)
            = Len(LastCall.contentState.blockMap[i].characterList)

\* C29: applyEntity returns a block map with the same keys in the same
\* order, each mapped to a block with that key, in which the characters
\* inside the selection carry the given entity, every other character keeps
\* its entity and every character keeps its style; selectionBefore and
\* selectionAfter are the selection passed.
C29_ApplyEntity ==
  LastCall.op = "applyEntity" =>
    /\ SameBlocksReturned
    /\ \A i \in 1..Len(out.value.blockMap) :
         LET before == LastCall.contentState.blockMap[i].characterList
             after == out.value.blockMap[i].characterList
         IN \A n \in 1..Len(before) :
              /\ after[n].style = before[n].style
              /\ after[n].entity = IF InsideSelection(i, n - 1) THEN LastCall.entityKey
                                   ELSE before[n].entity
    /\ out.value.selectionBefore = LastCall.selectionState
    /\ out.value.selectionAfter = LastCall.selectionState

\* C30: ContentStateInlineStyle.add (remove) adds (removes) the style on the
\* characters inside the selection and on no other: every character outside
\* keeps its style set, and every character keeps its entity.
C30_ModifyInlineStyle ==
  LastCall.op \in {"addInlineStyle", "removeInlineStyle"} =>
    /\ SameBlocksReturned
    /\ \A i \in 1..Len(out.value.blockMap) :
         LET before == LastCall.contentState.blockMap[i].characterList
             after == out.value.blockMap[i].characterList
         IN \A n \in 1..Len(before) :
              /\ after[n].entity = before[n].entity
              /\ Range(after[n].style) =
                   IF ~InsideSelection(i, n - 1) THEN Range(before[n].style)
                   ELSE IF LastCall.op = "addInlineStyle"
                   THEN Range(before[n].style) \cup {LastCall.inlineStyle}
                   ELSE Range(before[n].style) \ {LastCall.inlineStyle}

----------------------------------------------------------------------------
(* ContentBlock.findStyleRanges and findEntityRanges *)

\* the characters of the last call's block from start to end (from 0, end
\* excluded) are a run: they have equal styles (equal entities), and the
\* characters next to the run have another
IsMaximalRun(start, end) ==
  LET list == LastCall.characterList
      field(n) == IF LastCall.op = "findStyleRanges" THEN Range(list[n + 1].style)
                  ELSE list[n + 1].entity
  IN /\ 0 <= start /\ start < end /\ end <= Len(list)
     /\ \A n \in start..(end - 1) : field(n) = field(start)
     /\ start > 0 => field(start - 1) # field(start)
     /\ end < Len(list) => field(end) # field(start)

\* C21: findStyleRanges and findEntityRanges call the callback, in
\* increasing order of the offsets, once for every maximal run of characters
\* of equal style (of equal entity) whose representative character, the
\* last of the run, passes the filter, and for no other range; with a filter that accepts all, the ranges partition
\* [0, length); on an empty character list the callback is not called.
C21_FindRanges ==
  LastCall.op \in {"findStyleRanges", "findEntityRanges"} =>
    LET list == LastCall.characterList
        found == out.value
    IN /\ \A n \in 1..Len(found) :
            /\ IsMaximalRun(found[n].start, found[n].end)
            /\ passes(LastCall.filterFn, list[found[n].end])
       /\ \A n \in 1..(Len(found) - 1) : found[n].end <= found[n + 1].start
       /\ \A start \in 0..Len(list), end \in 0..Len(list) :
            IsMaximalRun(start, end) /\ passes(LastCall.filterFn, list[end])
              => \E n \in 1..Len(found) : found[n] = [start |-> start, end |-> end]
       /\ LastCall.filterFn = "all" /\ list # <<>> =>
            /\ found[1].start = 0
            /\ found[Len(found)].end = Len(list)
            /\ \A n \in 1..(Len(found) - 1) : found[n].end = found[n + 1].start
       /\ list = <<>> => found = <<>>

----------------------------------------------------------------------------
(* BlockTree.generate *)

\* the leaves partition [start, end) into maximal runs of characters of the
\* block with the same members in their style sets
LeavesPartition(block, range) ==
  LET leaves == range.leaves
      style(o) == Range(block.characterList[o + 1].style)
  IN /\ leaves # <<>>
     /\ leaves[1].start = range.start
     /\ leaves[Len(leaves)].end = range.end
     /\ \A n \in 1..Len(leaves) :
          /\ leaves[n].start < leaves[n].end
          /\ \A o \in leaves[n].start..(leaves[n].end - 1) : style(o) = style(leaves[n].start)
     /\ \A n \in 1..(Len(leaves) - 1) :
          /\ leaves[n].end = leaves[n + 1].start
          /\ style(leaves[n].end - 1) # style(leaves[n + 1].start)

\* C22: for a block of length n > 0 BlockTree.generate returns decorator
\* ranges that start at 0, end at n, follow each other without gap or
\* overlap, with different decorator keys on adjacent ranges, and whose
\* leaves partition each range into maximal runs of one inline style, at
\* offsets of the block; for a block without text it returns the one range
\* [0, 0) with decoratorKey null and the one leaf [0, 0).
C22_Generate ==
  LastCall.op = "generate" =>
    /\ out.kind = "return"
    /\ LET block == LastCall.block
           ranges == out.value
       IN IF getLength(block) = 0
          THEN ranges = <<[start |-> 0, end |-> 0, decoratorKey |-> Null,
                           leaves |-> <<[start |-> 0, end |-> 0]>>]>>
          ELSE /\ ranges # <<>>
               /\ ranges[1].start = 0
               /\ ranges[Len(ranges)].end = getLength(block)
               /\ \A n \in 1..Len(ranges) :
                    /\ ranges[n].start < ranges[n].end
                    /\ LeavesPartition(block, ranges[n])
               /\ \A n \in 1..(Len(ranges) - 1) :
                    /\ ranges[n].end = ranges[n + 1].start
                    /\ ranges[n].decoratorKey # ranges[n + 1].decoratorKey

----------------------------------------------------------------------------
(* The inline style override across push *)

PushedDifferent ==
  /\ LastCall.op = "push"
  /\ LastCall.contentState # Before.currentContent

\* the override in place before the push is in place after it
OverrideKept ==
  IF Falsy(Before.inlineStyleOverride) THEN Falsy(editorState.inlineStyleOverride)
  ELSE editorState.inlineStyleOverride = Before.inlineStyleOverride

OverrideCleared == editorState.inlineStyleOverride = Null

\* C25 as the specification states it: push of a different content keeps the
\* inline style override for the change types adjust-depth,
\* change-block-type and split-block and sets it to null for every other
\* change type, with undo enabled and with undo disabled.
C25_OverrideByChangeType ==
  PushedDifferent
  => IF LastCall.changeType \in overrideChangeTypes THEN OverrideKept
     ELSE OverrideCleared

\* C25 amended: with undo enabled, push of a different content keeps the
\* inline style override for the change types adjust-depth,
\* change-block-type and split-block and sets it to null for every other
\* change type; with undo disabled it sets it to null for every change type.
C25_OverrideByChangeTypeAndUndo ==
  PushedDifferent
  => IF LastCall.changeType \in overrideChangeTypes /\ ~Falsy(Before.allowUndo)
     THEN OverrideKept
     ELSE OverrideCleared

C25_Witness ==
  /\ PushedDifferent
  /\ LastCall.changeType = Str("split-block")
  /\ Before.allowUndo = Bool(TRUE)
  /\ Before.inlineStyleOverride = InlineStyle(<<"BOLD">>)
  /\ editorState.inlineStyleOverride = InlineStyle(<<"BOLD">>)

----------------------------------------------------------------------------
(* The selection after undo and redo *)

\* the last call was an undo that restored a content
Undone ==
  /\ LastCall.op = "undo"
  /\ ~Falsy(Before.allowUndo)
  /\ Before.undoStack # <<>>

Redone ==
  /\ LastCall.op = "redo"
  /\ ~Falsy(Before.allowUndo)
  /\ Before.redoStack # <<>>

\* C26 as the specification states it: after undo the selection of the
\* editor is the selectionBefore of the restored content, the one that
\* became current, and forceSelection is true; after redo the selection is
\* the selectionAfter of the restored content and forceSelection is true.
C26_SelectionOfRestored ==
  /\ Undone
     => /\ editorState.selection = editorState.currentContent.selectionBefore
        /\ editorState.forceSelection = Bool(TRUE)
  /\ Redone
     => /\ editorState.selection = editorState.currentContent.selectionAfter
        /\ editorState.forceSelection = Bool(TRUE)

\* C26 amended: after undo the selection of the editor is the
\* selectionBefore of the content that was current before the undo, the one
\* moved to the redo stack, and forceSelection is true; after redo the
\* selection is the selectionAfter of the restored content and
\* forceSelection is true.
C26_SelectionOfUndone ==
  /\ Undone
     => /\ editorState.selection = Before.currentContent.selectionBefore
        /\ editorState.forceSelection = Bool(TRUE)
  /\ Redone
     => /\ editorState.selection = editorState.currentContent.selectionAfter
        /\ editorState.forceSelection = Bool(TRUE)

\* an undo whose two contents differ in their selectionBefore
C26_Witness ==
  /\ Undone
  /\ Before.currentContent.selectionBefore # editorState.currentContent.selectionBefore
  /\ editorState.selection = Before.currentContent.selectionBefore
  /\ editorState.selection # Undefined
  /\ editorState.forceSelection = Bool(TRUE)

----------------------------------------------------------------------------
(* getCurrentInlineStyle *)

\* the style of the last character of the nearest non-empty block before
\* block i in document order, the empty style where there is none
StyleAbove(blockMap, i) ==
  LET nonEmpty == {j \in 1..(i - 1) : getLength(blockMap[j]) > 0}
      nearest == CHOOSE j \in nonEmpty : \A k \in nonEmpty : k <= j
  IN IF nonEmpty = {} THEN EMPTY_STYLE
     ELSE blockMap[nearest].characterList[getLength(blockMap[nearest])].style

\* C27: getCurrentInlineStyle returns the override when one is set;
\* otherwise, for a collapsed selection at offset o > 0 the style of the
\* character at o - 1, at offset 0 of a block with text the style of its
\* first character, at offset 0 of a block without text the style of the
\* last character of the nearest block with text before it (the empty style
\* if there is none); for a range the style of the character at the start
\* offset, else of the one before it, else the same look upward.
C27_CurrentInlineStyle ==
  LastCall.op = "getCurrentInlineStyle" =>
    LET blockMap == LastCall.contentState.blockMap
        selection == LastCall.selectionState
        override == LastCall.inlineStyleOverride
        i == IndexOfKey(blockMap, getStartKey(selection))
        o == getStartOffset(selection)
        block == blockMap[i]
        styleAt(offset) == block.characterList[offset + 1].style
    IN out = Return(
         IF override # Null THEN override
         ELSE IF isCollapsed(selection)
         THEN InlineStyle(IF o > 0 THEN styleAt(o - 1)
                          ELSE IF getLength(block) > 0 THEN styleAt(0)
                          ELSE StyleAbove(blockMap, i))
         ELSE InlineStyle(IF o < getLength(block) THEN styleAt(o)
                          ELSE IF o > 0 THEN styleAt(o - 1)
                          ELSE StyleAbove(blockMap, i)))

----------------------------------------------------------------------------
(* The tree map of the editor *)

BlockKeys(editor) == Range(Keys(editor.currentContent.blockMap))
TreeKeys(editor) == Range(Keys(editor.treeMap))

\* every block of the current content has the tree a full computation gives
TreesUpToDate(editor) ==
  LET content == editor.currentContent
  IN \A n \in 1..Len(content.blockMap) :
       getBlockTree(editor, content.blockMap[n].key)
         = generate(content, content.blockMap[n], editor.decorator).value

\* the calls so far are push, undo and redo
OnlyHistoryCalls == \A n \in 1..Len(calls) : calls[n].op \in {"push", "undo", "redo"}

C24_TreesOfNewDecorator ==
  LastCall.op = "setDecorator" =>
    /\ out.kind = "return"
    /\ out.value.decorator = LastCall.decorator
    /\ LET content == out.value.currentContent
       IN \A n \in 1..Len(content.blockMap) :
            getBlockTree(out.value, content.blockMap[n].key)
              = generate(content, content.blockMap[n], LastCall.decorator).value

----------------------------------------------------------------------------
(* insertFragment on flat documents *)

\* C31: insertFragment at a collapsed selection (T, o) of a document of
\* ContentBlocks.  A fragment of one block F leaves the number of blocks
\* as it is and gives block T the text T[0:o] + F.text + T[o:] and the
\* character list spliced alike; a fragment F1..Fn, n >= 2, puts in the
\* place of T the block keyed T with T[0:o] + F1.text, then F2..F(n-1),
\* then the last fragment block with Fn.text + T[o:].  Every other block is
\* the one of the input, and selectionAfter is collapsed just behind what
\* was inserted.
C31_InsertFragmentSplices ==
  (/\ LastCall.op = "insertFragment"
   /\ isCollapsed(LastCall.selectionState)
   /\ LastCall.fragment # <<>>
   /\ \A i \in 1..Len(LastCall.contentState.blockMap) :
        ~IsContentBlockNode(LastCall.contentState.blockMap[i]))
  => /\ out.kind = "return"
     /\ LET T == LastCall.selectionState.anchorKey
            o == LastCall.selectionState.anchorOffset
            F == LastCall.fragment
            n == Len(F)
            before == LastCall.contentState.blockMap
            after == out.value.blockMap
            p == Position(before, T)
            old == before[p]
        IN /\ Len(after) = Len(before) + n - 1
           /\ \A i \in 1..(p - 1) : after[i] = before[i]
           /\ \A i \in (p + 1)..Len(before) : after[i + n - 1] = before[i]
           /\ after[p].key = T
           /\ IF n = 1
              THEN /\ after[p].text = Slice(old.text, 0, o) \o F[1].text
                                        \o SliceFrom(old.text, o)
                   /\ after[p].characterList =
                        Slice(old.characterList, 0, o) \o F[1].characterList
                          \o SliceFrom(old.characterList, o)
                   /\ CollapsedAt(out.value.selectionAfter, T, o + Len(F[1].text))
              ELSE /\ after[p].text = Slice(old.text, 0, o) \o F[1].text
                   /\ after[p].characterList =
                        Slice(old.characterList, 0, o) \o F[1].characterList
                   /\ \A i \in 2..(n - 1) :
                        /\ after[p + i - 1].text = F[i].text
                        /\ after[p + i - 1].characterList = F[i].characterList
                   /\ after[p + n - 1].text = F[n].text \o SliceFrom(old.text, o)
                   /\ after[p + n - 1].characterList =
                        F[n].characterList \o SliceFrom(old.characterList, o)
                   /\ CollapsedAt(out.value.selectionAfter, after[p + n - 1].key,
                                  Len(F[n].text))

----------------------------------------------------------------------------
(* Entity data *)

\* C32: after updateEntityDataInContentState(content, key, data, merge) the
\* entity the returned ContentState reports for key has the old data
\* overlaid with data when merge is true and exactly data when merge is
\* false, with its type and mutability as before; every other entity is as
\* before, and the input ContentState still reports the old data for key.
C32_UpdateEntityData ==
  LastCall.op = "updateEntityData" =>
    /\ out.kind = "return"
    /\ LET registry == LastCall.DraftEntity
           key == LastCall.key
           old == registry[key]
           new == getEntity(out.value, registry, key)
       IN /\ new.data = IF LastCall.merge THEN Spread(old.data, LastCall.data)
                        ELSE LastCall.data
          /\ new.type = old.type
          /\ new.mutability = old.mutability
          /\ \A other \in DOMAIN registry \ {key} :
               getEntity(out.value, registry, other) = registry[other]
          /\ getEntity(LastCall.content, registry, key).data = old.data

----------------------------------------------------------------------------
(* Tree documents *)

\* The links of a tree document agree: a block is among the children of its
\* parent and is the parent of its children, and prevSibling / nextSibling
\* are its neighbours among the children of its parent (among the blocks
\* without parent, in document order, for a block without parent).
ValidTree(blockMap) ==
  LET keys == Range(Keys(blockMap))
      IsRoot(b) == b.parent = NullKey
      roots == Keys(SelectSeq(blockMap, IsRoot))
      siblings(b) == IF b.parent = NullKey THEN roots
                     ELSE MapGet(blockMap, b.parent).children
  IN \A n \in 1..Len(blockMap) :
       LET b == blockMap[n]
       IN /\ IsContentBlockNode(b)
          /\ \A m \in 1..Len(blockMap) : blockMap[m].key = b.key => m = n
          /\ b.parent \in keys \cup {NullKey}
          /\ \A i \in 1..Len(b.children) :
               /\ b.children[i] \in keys
               /\ MapGet(blockMap, b.children[i]).parent = b.key
               /\ \A j \in 1..Len(b.children) : b.children[j] = b.children[i] => j = i
          /\ b.key \in Range(siblings(b))
          /\ LET s == siblings(b)
                 i == indexOf(s, b.key) + 1
             IN /\ b.prevSibling = IF i = 1 THEN NullKey ELSE s[i - 1]
                /\ b.nextSibling = IF i = Len(s) THEN NullKey ELSE s[i + 1]

\* splitBlock with the cursor in a block without children of a tree document
SplitsLeaf ==
  /\ LastCall.op = "splitBlock"
  /\ isCollapsed(LastCall.selectionState)
  /\ ValidTree(LastCall.contentState.blockMap)
  /\ MapGet(LastCall.contentState.blockMap, LastCall.selectionState.anchorKey).children = <<>>

C34_MoveKeepsTreeValid ==
  (MovesBlock /\ ValidTree(LastCall.contentState.blockMap))
  => /\ out.kind = "return"
     /\ LET X == LastCall.blockToBeMoved
            Y == LastCall.targetBlock
            after == out.value.blockMap
            moved == MapGet(after, X.key)
            target == MapGet(after, Y.key)
        IN /\ ValidTree(after)
           /\ moved.parent = Y.parent
           /\ target.parent = Y.parent
           /\ Truthy(Y.parent) =>
                LET children == MapGet(after, Y.parent).children
                IN indexOf(children, X.key) =
                     indexOf(children, Y.key)
                       + (IF LastCall.insertionMode = "before" THEN -1 ELSE 1)
           /\ IF LastCall.insertionMode = "before"
              THEN moved.nextSibling = Y.key /\ target.prevSibling = X.key
              ELSE moved.prevSibling = Y.key /\ target.nextSibling = X.key
           /\ (Truthy(X.parent) /\ X.parent # Y.parent) =>
                X.key \notin Range(MapGet(after, X.parent).children)


\* the keys a block names: its parent, children and siblings
LinkedKeys(block) ==
  ({block.parent, block.prevSibling, block.nextSibling} \cup Range(block.children))
    \ {NullKey}

\* C35: removeRange over two different blocks of a valid tree document gives
\* a valid tree: no block of the result names a removed key as parent,
\* child, prevSibling or nextSibling, every ancestor of the end block that
\* still has a child in the result is in the result, and every block of the
\* result is linked with the rest of it.
C35_RemoveRangeKeepsTreeValid ==
  (/\ LastCall.op = "removeRange"
   /\ getStartKey(LastCall.selectionState) # getEndKey(LastCall.selectionState)
   /\ ValidTree(LastCall.contentState.blockMap))
  => /\ out.kind = "return"
     /\ LET before == LastCall.contentState.blockMap
            after == out.value.blockMap
            E == getEndKey(LastCall.selectionState)
            kept == Range(Keys(after))
            removed == Range(Keys(before)) \ kept
        IN /\ kept \subseteq Range(Keys(before))
           /\ \A n \in 1..Len(after) : LinkedKeys(after[n]) \cap removed = {}
           /\ \A n \in 1..Len(before) :
                (/\ before[n].key # E
                 /\ InSubtree(before, E, before[n].key)
                 /\ Range(before[n].children) \cap kept # {})
                => before[n].key \in kept
           /\ ValidTree(after)


\* C36: applyEntity, adding and removing an inline style and
\* adjustBlockDepth return a block map with the keys of the input in the
\* same order, in which every block before the start block of the selection
\* and every block after its end block is the block of the input, the same
\* object.
C36_BlocksOutsideSelectionShared ==
  LastCall.op \in {"applyEntity", "addInlineStyle", "removeInlineStyle", "adjustBlockDepth"}
  => /\ out.kind = "return"
     /\ LET before == LastCall.contentState.blockMap
            after == out.value.blockMap
        IN /\ Len(after) = Len(before)
           /\ \A i \in 1..Len(after) :
                /\ IsBlock(after[i])
                /\ after[i].key = before[i].key
                /\ ~InSelection(i) => after[i] = before[i]


----------------------------------------------------------------------------
(* The instance that create returns *)

\* C37: the instance that CharacterMetadata.create(config) returns has
\* exactly the style set and the entity of config, so two configs that
\* differ in the style set or in the entity never get the same instance, in
\* whatever order create is called.
C37_CreatedAsConfigured ==
  /\ \A i \in Creations :
       /\ Range(calls[i].result.style) = StyleOf(calls[i].config)
       /\ calls[i].result.entity = EntityOf(calls[i].config)
  /\ \A i \in Creations, j \in Creations :
       \/ StyleOf(calls[i].config) # StyleOf(calls[j].config)
       \/ EntityOf(calls[i].config) # EntityOf(calls[j].config)
       => calls[i].result # calls[j].result


----------------------------------------------------------------------------
(* Neighbours in the block map *)

\* the position of the key of the last call in its document, from 1
KeyPosition == indexOf(Keys(LastCall.content.blockMap), LastCall.key) + 1

\* C38: for the key at position i of the block map, getKeyAfter and
\* getBlockAfter return the key and the block at position i + 1, and no
\* value, without raising, when the key is the last; getKeyBefore and
\* getBlockBefore return the key and the block at position i - 1, and no
\* value, without raising, when the key is the first.
C38_Neighbours ==
  LastCall.op \in NeighbourMethods =>
    LET blocks == LastCall.content.blockMap
        i == KeyPosition
        j == IF LastCall.op \in {"getKeyAfter", "getBlockAfter"} THEN i + 1 ELSE i - 1
    IN /\ out.kind = "return"
       /\ out.value = IF LastCall.op \in {"getKeyAfter", "getKeyBefore"}
                      THEN (IF j \in 1..Len(blocks) THEN blocks[j].key ELSE UndefinedKey)
                      ELSE (IF j \in 1..Len(blocks) THEN blocks[j] ELSE Undefined)


----------------------------------------------------------------------------
(* The selections of a new ContentState *)

\* a defined selection that is a cursor at the start of the block
CursorAtStartOf(selection, block) ==
  /\ selection # Undefined
  /\ isCollapsed(selection)
  /\ selection.anchorKey = block.key
  /\ selection.anchorOffset = 0

\* C39: the ContentState that createFromText or createFromBlockArray builds
\* holds the blocks in the order of the input, and its getSelectionBefore and
\* getSelectionAfter return a defined selection collapsed at offset 0 of the
\* first block; a ContentState constructed with selectionBefore and
\* selectionAfter returns exactly these.
C39_ConstructedSelections ==
  /\ LastCall.op = "createFromText" =>
       LET strings == split(LastCall.text)
           content == out.value
       IN /\ Len(content.blockMap) = Len(strings)
          /\ \A i \in 1..Len(strings) : content.blockMap[i].text = strings[i]
          /\ CursorAtStartOf(content.selectionBefore, content.blockMap[1])
          /\ CursorAtStartOf(content.selectionAfter, content.blockMap[1])
  /\ LastCall.op = "createFromBlockArray" =>
       LET content == out.value
       IN /\ content.blockMap = LastCall.blocks
          /\ CursorAtStartOf(content.selectionBefore, content.blockMap[1])
          /\ CursorAtStartOf(content.selectionAfter, content.blockMap[1])
  /\ LastCall.op = "new ContentState" =>
       LET content == out.value
       IN /\ LastCall.selectionBefore # Undefined
             => content.selectionBefore = LastCall.selectionBefore
          /\ LastCall.selectionAfter # Undefined
             => content.selectionAfter = LastCall.selectionAfter


----------------------------------------------------------------------------
(* The direction of an updated selection *)

\* the block and the offset in it that an offset key and an offset in its
\* leaf stand for: the position of the block in the block map, and the start
\* of the leaf plus the offset
PointOf(editor, offsetKey, offset) ==
  LET path == DraftOffsetKey_decode(offsetKey)
  IN <<indexOf(Keys(editor.currentContent.blockMap), path.blockKey) + 1,
       leafAt(editor, path).start + offset>>

\* C40: the selection that getUpdatedSelectionState returns is backward
\* exactly when the focus precedes the anchor in document order: the block
\* of the focus before the block of the anchor in the block map, or, in one
\* block, the focus offset less than the anchor offset.
C40_BackwardWhenFocusFirst ==
  LastCall.op = "getUpdatedSelectionState" =>
    LET editor == LastCall.editorState
        anchor == PointOf(editor, LastCall.anchorKey, LastCall.anchorOffset)
        focus == PointOf(editor, LastCall.focusKey, LastCall.focusOffset)
    IN /\ out.kind = "return"
       /\ out.value.isBackward = Precedes(focus, anchor)

====
